---- MODULE Spec2Model ----
(***************************************************************************)
(* A model of the section store of isongn (src/world/world.go): the        *)
(* four-slot section cache of the Loader, the section files it reads and   *)
(* writes, the observer notifications, and the world-coordinate            *)
(* addressing of get/set/erase.                                            *)
(***************************************************************************)
EXTENDS Integers, Sequences, FiniteSets, TLC

\* ------------------------------------------------------------------------
\* Program constants (world.go:14-20, world.go:37)
SECTION_SIZE == 200
SECTION_Z_SIZE == 24
EDITOR_MODE == 0
RUNNER_MODE == 1
CacheSlots == 4

\* ------------------------------------------------------------------------
\* Bounds of the model
MaxShape == 1      \* shape indexes 0..MaxShape are placed
MaxClock == 2      \* time.Now().Unix() ranges over 1..MaxClock
MaxLoads == 5      \* the observer receives at most MaxLoads SectionLoad notifications
MaxViewLoads == 6  \* and at most MaxViewLoads when the View asks for sections

\* The sections the calls address, in the order in which they are first
\* requested.  The first and the last have a coordinate beyond 255.
SectionOrder == << <<257, 1>>, <<0, 0>>, <<1, 0>>, <<0, 1>>, <<16, 257>> >>

\* World (x,y) coordinates the calls are made with: the origin of each of the
\* sections above, and one negative coordinate.
Points ==
    { <<51400, 200>>, <<3200, 51400>>, <<0, 0>>, <<200, 0>>, <<0, 200>>, <<-1, 0>> }
\* The coordinates at which cells are written.
WritePoints == { <<51400, 200>>, <<-1, 0>> }
Zs == {0}
ShapeIndexes == 0..MaxShape

\* Failures the file system can answer a call with (none, or one per call).
\*   stat   : os.Stat fails with an error other than "does not exist"
\*   open   : os.Open / gzip.NewReader fails
\*   decode : reading the version byte or gob decoding fails
\*   create : os.Create fails
\*   encode : gob encoding fails after the file was created
Faults == {"none", "stat", "open", "decode", "create", "encode"}

\* ------------------------------------------------------------------------
\* Go integer division and remainder truncate toward zero.
GoDiv(a, b) == IF a >= 0 THEN a \div b ELSE -((-a) \div b)
GoMod(a, b) == a - b * GoDiv(a, b)

\* Mathematical floor division and modulus.
FloorDiv(a, b) == a \div b
FloorMod(a, b) == a % b

Slots == 0..(CacheSlots - 1)

SectionKeys == { SectionOrder[j] : j \in 1..Len(SectionOrder) }

\* Local cells of a section that the model tracks: those the inputs address.
InRangeXY(a) == a >= 0 /\ a < SECTION_SIZE
InRangeZ(z) == z >= 0 /\ z < SECTION_Z_SIZE
AtomsX == { a \in { GoMod(p[1], SECTION_SIZE) : p \in Points } : InRangeXY(a) }
AtomsY == { a \in { GoMod(p[2], SECTION_SIZE) : p \in Points } : InRangeXY(a) }
Cells == AtomsX \X AtomsY \X { z \in Zs : InRangeZ(z) }
EdgeCells == AtomsX \X AtomsY

ZeroPosition == [c \in Cells |-> 0]
ZeroEdges == [c \in EdgeCells |-> 0]

\* &Section{X: sx, Y: sy}: a section with every cell 0.
NewSection(sx, sy) ==
    [ptr |-> TRUE, X |-> sx, Y |-> sy, position |-> ZeroPosition, edges |-> ZeroEdges]
\* The nil *Section of an empty cache slot.
Nil ==
    [ptr |-> FALSE, X |-> 0, Y |-> 0, position |-> ZeroPosition, edges |-> ZeroEdges]

\* ------------------------------------------------------------------------
\* fmt.Sprintf("map%02x%02x", sx, sy): each coordinate in hexadecimal, padded
\* with zeros to at least two characters (the sign counts as a character).
HexDigit ==
    <<"0", "1", "2", "3", "4", "5", "6", "7", "8", "9", "a", "b", "c", "d", "e", "f">>
RECURSIVE Hex(_)
Hex(n) ==
    IF n < 16 THEN <<HexDigit[n + 1]>>
    ELSE Hex(n \div 16) \o <<HexDigit[(n % 16) + 1]>>
Fmt02x(n) ==
    IF n < 0 THEN <<"-">> \o Hex(-n)
    ELSE IF n < 16 THEN <<"0">> \o Hex(n)
    ELSE Hex(n)
mapFileName(sx, sy) == <<"m", "a", "p">> \o Fmt02x(sx) \o Fmt02x(sy)

\* the sections under the window of a Loader at (5000, 5000)
WindowKeys == { <<24, 24>>, <<24, 25>>, <<25, 24>>, <<25, 25>> }
FileNames == { mapFileName(k[1], k[2]) : k \in SectionKeys \cup WindowKeys }
Dirs == {"user", "game"}
Paths == Dirs \X FileNames

\* A file: absent, or holding an encoded section, or holding a torn stream.
NoFile == [exists |-> FALSE, ok |-> FALSE, position |-> ZeroPosition, edges |-> ZeroEdges]
TornFile == [exists |-> TRUE, ok |-> FALSE, position |-> ZeroPosition, edges |-> ZeroEdges]
FileOf(section) ==
    [exists |-> TRUE, ok |-> TRUE, position |-> section.position, edges |-> section.edges]

\* ------------------------------------------------------------------------
\* ------------------------------------------------------------------------
\* The View (package gfx): a window of SIZE x SIZE x SECTION_Z_SIZE cells
\* around the Loader's position. A cell is named by its view coordinates
\* <<x, y, z>>; NoCell is the nil *BlockPos.
SIZE == 96
SEARCH_SIZE == 16
PathBoxDepth == 4
NoCell == <<>>

\* shapes.Shapes: the footprint and the NoSupport flag of each shape. A cell's
\* Block is the shape's index plus one (0: empty), so that Shapes[Block] here
\* is shapes.Shapes[Block-1] there. 1: a creature, 2: a wall piece, 3: a door,
\* 4: a puddle that carries nothing, 5: a crate.
Shapes ==
    << [Size |-> <<1, 1, 2>>, NoSupport |-> FALSE],
       [Size |-> <<1, 1, 4>>, NoSupport |-> FALSE],
       [Size |-> <<1, 1, 4>>, NoSupport |-> FALSE],
       [Size |-> <<1, 1, 1>>, NoSupport |-> TRUE],
       [Size |-> <<1, 1, 1>>, NoSupport |-> FALSE] >>
Blocks == 1..Len(Shapes)

\* view.context.pathThroughShapes after AddPathThroughShape(the door)
pathThroughShapes == {3}

\* BoundingBox: an anchor and an extent on each axis; the box covers the cells
\* X .. X+W-1, Y .. Y+H-1, Z .. Z+D-1.
BoundingBox(x, y, z, w, h, d) == [X |-> x, Y |-> y, Z |-> z, W |-> w, H |-> h, D |-> d]
SetPos(box, x, y, z) == [box EXCEPT !.X = x, !.Y = y, !.Z = z]
Overlap(a, la, b, lb) == a < b + lb /\ b < a + la
intersect(a, b) ==
    /\ Overlap(a.X, a.W, b.X, b.W)
    /\ Overlap(a.Y, a.H, b.Y, b.H)
    /\ Overlap(a.Z, a.D, b.Z, b.D)
isInside(box, x, y, z) ==
    /\ x >= box.X /\ x < box.X + box.W
    /\ y >= box.Y /\ y < box.Y + box.H
    /\ z >= box.Z /\ z < box.Z + box.D
NoBox == BoundingBox(0, 0, 0, 0, 0, 0)

\* PathNode of a cell after resetPathFind
NewPathNode ==
    [f |-> 0, g |-> 0, h |-> 0, visited |-> FALSE, closed |-> FALSE, fitCalled |-> FALSE,
     blocker |-> NoCell, parent |-> NoCell]

\* Maps over the cells of the window list the cells that differ from the
\* zero value only: pos lists the occupied cells (Block > 0), box the cells
\* whose box was ever set, pathNode the cells a search has touched.
NoCells == [c \in {} |-> 0]
Put(map, c, v) == [d \in DOMAIN map \cup {c} |-> IF d = c THEN v ELSE map[d]]
Drop(map, c) == [d \in DOMAIN map \ {c} |-> map[d]]

NewContext ==
    [isFlying |-> FALSE, isPathing |-> FALSE, usePathThrough |-> FALSE,
     start |-> NoCell, end |-> NoCell, startBox |-> NoBox, endBox |-> NoBox]

\* InitView: no cell refers to a position yet, maxZ is the full height; Load
\* gives the cells their world coordinates (origin) and their positions.
\* A cell's pos is a pointer to a position of the Section that was in the
\* cache when the pointer was taken: pos holds the Block read through it,
\* linked the sections whose cached Section the pointers taken by Load still
\* lead into, relinked the cells whose pointer SetShape has taken since and
\* that still lead into a cached Section.
InitView ==
    [pos |-> NoCells, box |-> NoCells, pathNode |-> NoCells, context |-> NewContext,
     maxZ |-> SECTION_Z_SIZE, origin |-> <<0, 0>>, loaded |-> FALSE,
     linked |-> {}, relinked |-> {}]

\* The record of a window-level call: what was asked, whether its coordinates
\* were inside the window, what it returned (nil: a nil pointer or slice),
\* the cells it indexed itself (those scanned by search are not listed), and,
\* for FindPath, where the search stands.
NoQuery ==
    [op |-> "none", args |-> <<>>, pc |-> "idle", valid |-> FALSE, nil |-> TRUE,
     result |-> <<>>, reads |-> {}, passes |-> 0, openList |-> <<>>, panic |-> FALSE]

VARIABLES
    cache,     \* loader.sectionCache.cache
    times,     \* loader.sectionCache.times
    ioMode,    \* loader.ioMode
    focus,     \* <<loader.X, loader.Y>>
    files,     \* the section files under the user and the game directory
    status,    \* "running", "fatal" (log.Fatal) or "panic" (index out of range)
    call,      \* the last call of the Loader's API and what it returned
    trace,     \* what the last call did, in order: notifications and file writes
    order,     \* the occupied slots, least recently accessed first
    loads,     \* how many SectionLoad notifications the observer has received
    written,   \* the value last stored at each written world cell, by a call that returned
    view,      \* the View: its cells (pos, box, pathNode) and its context
    query      \* the window-level call in progress or last returned

vars == <<cache, times, ioMode, focus, files, status, call, trace, order, loads, written,
          view, query>>

Event(ev, sx, sy) == [ev |-> ev, X |-> sx, Y |-> sy]

NoCall == [op |-> "none", args |-> <<>>, val |-> 0, ok |-> FALSE, pos |-> <<>>]

Init ==
    /\ cache = [i \in Slots |-> Nil]
    /\ times = [i \in Slots |-> 0]
    /\ ioMode = EDITOR_MODE
    /\ focus = <<5000, 5000>>
    /\ files = [p \in Paths |-> NoFile]
    /\ status = "running"
    /\ call = NoCall
    /\ trace = <<>>
    /\ order = <<>>
    /\ loads = 0
    /\ written = [position |-> [c \in WritePoints \X Zs |-> 0],
                  edges |-> [c \in WritePoints |-> 0]]
    /\ view = InitView
    /\ query = NoQuery

\* ------------------------------------------------------------------------
\* Loader.save: the path depends on the I/O mode alone; os.Create failing
\* leaves the file as it was, a failing encoder leaves a torn file.
savePath(sx, sy) ==
    IF ioMode = EDITOR_MODE THEN <<"game", mapFileName(sx, sy)>>
    ELSE <<"user", mapFileName(sx, sy)>>

saveTo(path, section, fault, fs) ==
    IF fault = "create" THEN
        [err |-> TRUE, files |-> fs,
         done |-> <<Event("createError", section.X, section.Y)>>]
    ELSE IF fault = "encode" THEN
        [err |-> TRUE, files |-> [fs EXCEPT ![path] = TornFile],
         done |-> <<Event("torn", section.X, section.Y)>>]
    ELSE
        [err |-> FALSE, files |-> [fs EXCEPT ![path] = FileOf(section)],
         done |-> <<Event("write", section.X, section.Y)>>]

save(section, fault, fs) == saveTo(savePath(section.X, section.Y), section, fault, fs)

\* Loader.load: the editor reads from the game directory; the runner reads
\* from the user directory and falls back to the game directory when os.Stat
\* says the user file does not exist.  The file is read only if a second
\* os.Stat of the chosen path returns no error at all.
choosePath(mapName, fault, fs) ==
    IF ioMode = EDITOR_MODE THEN <<"game", mapName>>
    ELSE IF fault # "stat" /\ ~fs[<<"user", mapName>>].exists THEN <<"game", mapName>>
    ELSE <<"user", mapName>>

loadPath(sx, sy, fault, fs) == choosePath(mapFileName(sx, sy), fault, fs)

\* A variant of the result below: a file that cannot be found is an error.
absentIsError(sx, sy, fault) ==
    [err |-> TRUE, section |-> Nil,
     done |-> IF fault = "stat" THEN <<Event("statError", sx, sy)>> ELSE <<>>]

\* What load returns when os.Stat of the chosen path returned an error: the
\* section as constructed, and no error.
absent(sx, sy, fault) ==
    [err |-> FALSE, section |-> NewSection(sx, sy),
     done |-> IF fault = "stat" THEN <<Event("statError", sx, sy)>> ELSE <<>>]

loadFrom(file, sx, sy, fault) ==
    IF fault = "stat" \/ ~file.exists THEN absent(sx, sy, fault)
    ELSE IF fault = "open" THEN
        [err |-> TRUE, section |-> Nil, done |-> <<Event("openError", sx, sy)>>]
    ELSE IF fault = "decode" \/ ~file.ok THEN
        [err |-> TRUE, section |-> Nil, done |-> <<Event("decodeError", sx, sy)>>]
    ELSE
        [err |-> FALSE,
         section |-> [ptr |-> TRUE, X |-> sx, Y |-> sy,
                      position |-> file.position, edges |-> file.edges],
         done |-> <<Event("read", sx, sy)>>]

load(sx, sy, fault, fs) == loadFrom(fs[loadPath(sx, sy, fault, fs)], sx, sy, fault)

\* The part of the Loader a request for a section reads and writes.
Store == [cache |-> cache, times |-> times, files |-> files, order |-> order]

\* Variants of the loop below: one compares the slot's Y with sx, one takes
\* the last of the slots whose time is smallest.
RECURSIVE scanCacheKeyTypo(_, _, _, _, _)
scanCacheKeyTypo(L, i, oldestIndex, sx, sy) ==
    IF i >= CacheSlots THEN [hit |-> FALSE, index |-> oldestIndex]
    ELSE IF L.cache[i].ptr /\ L.cache[i].X = sx /\ L.cache[i].Y = sx THEN
        [hit |-> TRUE, index |-> i]
    ELSE IF oldestIndex = -1 \/ L.times[i] < L.times[oldestIndex] THEN
        scanCacheKeyTypo(L, i + 1, i, sx, sy)
    ELSE scanCacheKeyTypo(L, i + 1, oldestIndex, sx, sy)

RECURSIVE scanCacheLastOldest(_, _, _, _, _)
scanCacheLastOldest(L, i, oldestIndex, sx, sy) ==
    IF i >= CacheSlots THEN [hit |-> FALSE, index |-> oldestIndex]
    ELSE IF L.cache[i].ptr /\ L.cache[i].X = sx /\ L.cache[i].Y = sy THEN
        [hit |-> TRUE, index |-> i]
    ELSE IF oldestIndex = -1 \/ L.times[i] <= L.times[oldestIndex] THEN
        scanCacheLastOldest(L, i + 1, i, sx, sy)
    ELSE scanCacheLastOldest(L, i + 1, oldestIndex, sx, sy)

\* The loop of Loader.getSection: stops at the first slot that holds (sx,sy);
\* otherwise ends with the first slot whose time is smallest.
RECURSIVE scanCache(_, _, _, _, _)
scanCache(L, i, oldestIndex, sx, sy) ==
    IF i >= CacheSlots THEN [hit |-> FALSE, index |-> oldestIndex]
    ELSE IF L.cache[i].ptr /\ L.cache[i].X = sx /\ L.cache[i].Y = sy THEN
        [hit |-> TRUE, index |-> i]
    ELSE IF oldestIndex = -1 \/ L.times[i] < L.times[oldestIndex] THEN
        scanCache(L, i + 1, i, sx, sy)
    ELSE scanCache(L, i + 1, oldestIndex, sx, sy)

\* Variants of the eviction below: one never tells the observer, one saves
\* first and tells the observer only of a save that succeeded.
evictUnnoticed(oldSection, fault, fs) == save(oldSection, fault, fs)

evictSaveFirst(oldSection, fault, fs) ==
    LET saved == save(oldSection, fault, fs)
    IN  [err |-> saved.err, files |-> saved.files,
         done |-> IF saved.err THEN saved.done
                  ELSE saved.done \o <<Event("SectionSave", oldSection.X, oldSection.Y)>>]

\* The eviction of Loader.getSection: the observer is told of the save, then
\* the section is saved.
evict(oldSection, fault, fs) ==
    LET saved == save(oldSection, fault, fs)
    IN  [err |-> saved.err, files |-> saved.files,
         done |-> <<Event("SectionSave", oldSection.X, oldSection.Y)>> \o saved.done]

\* The notification that ends a miss.
noteLoad(sx, sy) == <<Event("SectionLoad", sx, sy)>>

Without(seq, x) == SelectSeq(seq, LAMBDA e : e # x)

\* Loader.getSection on the store L, as the state it leaves and the error it
\* returns: the hit (world.go:143-146), the eviction of the chosen slot
\* (152-160), the load (162-166) and the installation (168-174).
getSectionHitStampsAll(L, i, now) ==
    [err |-> FALSE, slot |-> i, cache |-> L.cache,
     times |-> [j \in Slots |-> IF L.cache[j].ptr THEN now ELSE L.times[j]], files |-> L.files,
     trace |-> <<>>, order |-> Append(Without(L.order, i), i)]
getSectionHit(L, i, now) ==
    [err |-> FALSE, slot |-> i, cache |-> L.cache,
     times |-> [L.times EXCEPT ![i] = now], files |-> L.files,
     trace |-> <<>>, order |-> Append(Without(L.order, i), i)]

getSectionPut(L, i, saved, loaded, sx, sy, now) ==
    IF loaded.err THEN
        [err |-> TRUE, slot |-> i, cache |-> L.cache, times |-> L.times,
         files |-> saved.files, trace |-> saved.done \o loaded.done,
         order |-> L.order]
    ELSE
        [err |-> FALSE, slot |-> i,
         cache |-> [L.cache EXCEPT ![i] = loaded.section],
         times |-> [L.times EXCEPT ![i] = now],
         files |-> saved.files,
         trace |-> saved.done \o loaded.done \o noteLoad(sx, sy),
         order |-> Append(Without(L.order, i), i)]

getSectionLoad(L, i, saved, sx, sy, fault, now) ==
    IF saved.err THEN
        [err |-> TRUE, slot |-> i, cache |-> L.cache, times |-> L.times,
         files |-> saved.files, trace |-> saved.done, order |-> L.order]
    ELSE getSectionPut(L, i, saved, load(sx, sy, fault, saved.files), sx, sy, now)

getSectionMiss(L, i, sx, sy, fault, now) ==
    getSectionLoad(L, i,
                   IF L.cache[i].ptr THEN evict(L.cache[i], fault, L.files)
                   ELSE [err |-> FALSE, files |-> L.files, done |-> <<>>],
                   sx, sy, fault, now)

getSectionAt(L, scan, sx, sy, fault, now) ==
    IF scan.hit THEN getSectionHit(L, scan.index, now)
    ELSE getSectionMiss(L, scan.index, sx, sy, fault, now)

getSection(L, sx, sy, fault, now) ==
    getSectionAt(L, scanCache(L, 0, -1, sx, sy), sx, sy, fault, now)

\* Loader.getPosInSection: the section and the local cell of a world cell.
getPosInSection(worldX, worldY, worldZ, fault, now) ==
    [got |-> getSection(Store, GoDiv(worldX, SECTION_SIZE), GoDiv(worldY, SECTION_SIZE),
                        fault, now),
     sx |-> GoDiv(worldX, SECTION_SIZE),
     sy |-> GoDiv(worldY, SECTION_SIZE),
     atomX |-> GoMod(worldX, SECTION_SIZE),
     atomY |-> GoMod(worldY, SECTION_SIZE),
     atomZ |-> worldZ]

\* Indexing position[atomX][atomY][atomZ] or edges[atomX][atomY] panics when
\* an index is outside the array.
InBounds(p) == InRangeXY(p.atomX) /\ InRangeXY(p.atomY) /\ InRangeZ(p.atomZ)

\* The value read at the located cell; the read panics when the cell is
\* outside the arrays, and then no value is read.
positionAt(p) ==
    IF InBounds(p) THEN p.got.cache[p.got.slot].position[<<p.atomX, p.atomY, p.atomZ>>]
    ELSE 0
edgeAt(p) ==
    IF InBounds(p) THEN p.got.cache[p.got.slot].edges[<<p.atomX, p.atomY>>]
    ELSE 0

\* What GetShape and GetEdge return for a stored value.
found(shapeIndex) ==
    [val |-> IF shapeIndex = 0 THEN 0 ELSE shapeIndex - 1, ok |-> shapeIndex # 0]

PosOf(p) == <<p.sx, p.sy, p.atomX, p.atomY, p.atomZ>>

\* A failure answers a system call that is made: it is one of the events of
\* the call it strikes.
Failures == {"statError", "openError", "decodeError", "createError", "torn"}
Count(events, ev) == Len(SelectSeq(events, LAMBDA e : e.ev = ev))
Struck(events) == \E k \in 1..Len(events) : events[k].ev \in Failures

\* ------------------------------------------------------------------------
\* The Sections the cells of the View point into. Once a Section has left
\* the cache the pointers into it lead to a Section the Loader no longer
\* reads or writes.
KeysIn(ca) == { <<ca[i].X, ca[i].Y>> : i \in { j \in Slots : ca[j].ptr } }
sectionOf(v, c) ==
    <<GoDiv(c[1] + (v.origin[1] - SIZE \div 2), SECTION_SIZE),
      GoDiv(c[2] + (v.origin[2] - SIZE \div 2), SECTION_SIZE)>>
Fresh(v, c) == sectionOf(v, c) \in v.linked \/ c \in v.relinked
Unlink(v, ca) ==
    [v EXCEPT !.linked = @ \cap KeysIn(ca),
              !.relinked = { c \in @ : sectionOf(v, c) \in KeysIn(ca) }]

\* ------------------------------------------------------------------------
\* What a call that went through getPosInSection leaves behind: log.Fatal
\* when getSection returned an error, a panic when the local cell is outside
\* the arrays, else the section as the call edited it and the call's result.
Done(op, args, p, fault, cacheAfter, writtenAfter, val, ok) ==
    /\ fault # "none" => Struck(p.got.trace)
    /\ loads' = loads + Count(p.got.trace, "SectionLoad")
    /\ loads' <= MaxLoads
    /\ status' = IF p.got.err THEN "fatal" ELSE IF ~InBounds(p) THEN "panic" ELSE "running"
    /\ cache' = IF status' = "running" THEN cacheAfter ELSE p.got.cache
    /\ written' = IF status' = "running" THEN writtenAfter ELSE written
    /\ times' = p.got.times
    /\ files' = p.got.files
    /\ trace' = p.got.trace
    /\ order' = p.got.order
    /\ call' = [op |-> op, args |-> args,
                val |-> IF status' = "running" THEN val ELSE 0,
                ok |-> status' = "running" /\ ok,
                pos |-> PosOf(p)]
    /\ view' = Unlink(view, p.got.cache)
    /\ UNCHANGED <<ioMode, focus, query>>

SetIoMode(mode) ==
    /\ status = "running"
    /\ ioMode' = mode
    /\ call' = [op |-> "SetIoMode", args |-> <<mode>>, val |-> 0, ok |-> TRUE, pos |-> <<>>]
    /\ trace' = <<>>
    /\ UNCHANGED <<cache, times, focus, files, status, order, loads, written, view, query>>

MoveToAnywhere(x, y) ==
    /\ status = "running"
    /\ LET moved == focus[1] # x \/ focus[2] # y
       IN  /\ focus' = IF moved THEN <<x, y>> ELSE focus
           /\ call' = [op |-> "MoveTo", args |-> <<x, y>>, val |-> 0, ok |-> moved,
                       pos |-> <<>>]
    /\ trace' = <<>>
    /\ UNCHANGED <<cache, times, ioMode, files, status, order, loads, written, view, query>>

MoveTo(x, y) ==
    /\ status = "running"
    /\ LET moved == x >= 0 /\ y >= 0 /\ (focus[1] # x \/ focus[2] # y)
       IN  /\ focus' = IF moved THEN <<x, y>> ELSE focus
           /\ call' = [op |-> "MoveTo", args |-> <<x, y>>, val |-> 0, ok |-> moved,
                       pos |-> <<>>]
    /\ trace' = <<>>
    /\ UNCHANGED <<cache, times, ioMode, files, status, order, loads, written, view, query>>

ClearEdge(x, y, fault, now) ==
    /\ status = "running"
    /\ \E p \in {getPosInSection(x, y, 0, fault, now)} :
         Done("ClearEdge", <<x, y>>, p, fault,
              [p.got.cache EXCEPT ![p.got.slot].edges[<<p.atomX, p.atomY>>] = 0],
              [written EXCEPT !.edges[<<x, y>>] = 0], 0, TRUE)

SetEdge(x, y, shapeIndex, fault, now) ==
    /\ status = "running"
    /\ \E p \in {getPosInSection(x, y, 0, fault, now)} :
         Done("SetEdge", <<x, y, shapeIndex>>, p, fault,
              [p.got.cache EXCEPT
                  ![p.got.slot].edges[<<p.atomX, p.atomY>>] = shapeIndex + 1],
              [written EXCEPT !.edges[<<x, y>>] = shapeIndex + 1], 0, TRUE)

GetEdge(x, y, fault, now) ==
    /\ status = "running"
    /\ \E p \in {getPosInSection(x, y, 0, fault, now)} :
       \E shapeIndex \in {edgeAt(p)} :
         Done("GetEdge", <<x, y>>, p, fault, p.got.cache, written,
              found(shapeIndex).val, found(shapeIndex).ok)

SetShape(x, y, z, shapeIndex, fault, now) ==
    /\ status = "running"
    /\ \E p \in {getPosInSection(x, y, z, fault, now)} :
         Done("SetShape", <<x, y, z, shapeIndex>>, p, fault,
              [p.got.cache EXCEPT
                  ![p.got.slot].position[<<p.atomX, p.atomY, p.atomZ>>] = shapeIndex + 1],
              [written EXCEPT !.position[<<<<x, y>>, z>>] = shapeIndex + 1],
              0, TRUE)

EraseShapeAlwaysTrue(x, y, z, fault, now) ==
    /\ status = "running"
    /\ \E p \in {getPosInSection(x, y, z, fault, now)} :
         Done("EraseShape", <<x, y, z>>, p, fault,
              [p.got.cache EXCEPT
                  ![p.got.slot].position[<<p.atomX, p.atomY, p.atomZ>>] = 0],
              [written EXCEPT !.position[<<<<x, y>>, z>>] = 0],
              0, TRUE)

EraseShape(x, y, z, fault, now) ==
    /\ status = "running"
    /\ \E p \in {getPosInSection(x, y, z, fault, now)} :
       \E shapeIndex \in {positionAt(p)} :
         Done("EraseShape", <<x, y, z>>, p, fault,
              IF shapeIndex > 0
              THEN [p.got.cache EXCEPT
                       ![p.got.slot].position[<<p.atomX, p.atomY, p.atomZ>>] = 0]
              ELSE p.got.cache,
              [written EXCEPT !.position[<<<<x, y>>, z>>] = 0],
              0, shapeIndex > 0)

GetShape(worldX, worldY, worldZ, fault, now) ==
    /\ status = "running"
    /\ \E p \in {getPosInSection(worldX, worldY, worldZ, fault, now)} :
       \E shapeIndex \in {positionAt(p)} :
         Done("GetShape", <<worldX, worldY, worldZ>>, p, fault, p.got.cache, written,
              found(shapeIndex).val, found(shapeIndex).ok)

GetSectionPos ==
    /\ status = "running"
    /\ call' = [op |-> "GetSectionPos", args |-> <<>>, val |-> 0, ok |-> TRUE,
                pos |-> <<GoDiv(focus[1], SECTION_SIZE), GoDiv(focus[2], SECTION_SIZE)>>]
    /\ trace' = <<>>
    /\ UNCHANGED <<cache, times, ioMode, focus, files, status, order, loads, written, view,
                   query>>

\* Loader.SaveAll: saves the occupied slots in slot order and returns the
\* first error; fault strikes the save of slot at.
RECURSIVE saveAll(_, _, _, _, _)
saveAllNext(i, r, fault, at, done) ==
    IF r.err THEN [err |-> TRUE, files |-> r.files, done |-> done \o r.done]
    ELSE saveAll(i + 1, fault, at, r.files, done \o r.done)

saveAll(i, fault, at, fs, done) ==
    IF i >= CacheSlots THEN [err |-> FALSE, files |-> fs, done |-> done]
    ELSE IF ~cache[i].ptr THEN saveAll(i + 1, fault, at, fs, done)
    ELSE saveAllNext(i, save(cache[i], IF i = at THEN fault ELSE "none", fs),
                     fault, at, done)

SaveAll(fault, at) ==
    /\ status = "running"
    /\ \E r \in {saveAll(0, fault, at, files, <<>>)} :
         /\ fault # "none" => Struck(r.done)
         /\ files' = r.files
         /\ trace' = r.done
         /\ call' = [op |-> "SaveAll", args |-> <<>>, val |-> 0, ok |-> ~r.err,
                     pos |-> <<>>]
    /\ UNCHANGED <<cache, times, ioMode, focus, status, order, loads, written, view, query>>

\* time.Now().Unix() at a call: positive, and no earlier than any time the
\* cache was stamped with.
MaxOf(S) == CHOOSE x \in S \cup {1} : \A y \in S \cup {1} : y <= x
Nows == MaxOf({ times[i] : i \in Slots })..MaxClock
\* the same, for a call made within the second of the call before it
Frame == {MaxOf({ times[i] : i \in Slots })}

\* A section is first requested only after the sections before it in
\* SectionOrder.
Rank(p) ==
    CHOOSE j \in 1..Len(SectionOrder) :
        SectionOrder[j] = <<GoDiv(p[1], SECTION_SIZE), GoDiv(p[2], SECTION_SIZE)>>
Reads == { p \in Points : Rank(p) <= loads + 1 }
Writes == { p \in WritePoints : Rank(p) <= loads + 1 }
SaveFaults == {"none", "create", "encode"}

\* Loader.SetIoMode is called while the loader is set up, before the first
\* request for a section (runner.go:124).
Setup == \E mode \in {EDITOR_MODE, RUNNER_MODE} : order = <<>> /\ SetIoMode(mode)

\* The store under requests for sections, with the failures of the file system.
Next ==
    \/ \E p \in Reads, z \in Zs, f \in Faults, now \in Nows :
            GetShape(p[1], p[2], z, f, now)
    \/ \E p \in Reads, f \in Faults, now \in Nows : GetEdge(p[1], p[2], f, now)

Spec == Init /\ [][Next]_vars

\* The same calls when no system call fails.
NextQuiet ==
    \/ Setup
    \/ \E p \in Writes, z \in Zs, i \in ShapeIndexes, now \in Nows :
            SetShape(p[1], p[2], z, i, "none", now)
    \/ \E p \in Writes, z \in Zs, now \in Nows : EraseShape(p[1], p[2], z, "none", now)
    \/ \E p \in Reads, z \in Zs, now \in Nows : GetShape(p[1], p[2], z, "none", now)

SpecQuiet == Init /\ [][NextQuiet]_vars

\* Two sections under cell and edge writes and SaveAll; only SaveAll meets
\* failures.
SavePoints == { <<51400, 200>>, <<3200, 51400>> }
SaveWrites == SavePoints \cap WritePoints

NextSave ==
    \/ Setup
    \/ \E p \in SaveWrites, now \in Nows : ClearEdge(p[1], p[2], "none", now)
    \/ \E p \in SaveWrites, i \in ShapeIndexes, now \in Nows :
            SetEdge(p[1], p[2], i, "none", now)
    \/ \E p \in SavePoints, now \in Nows : GetEdge(p[1], p[2], "none", now)
    \/ \E p \in SavePoints, z \in Zs, now \in Nows : GetShape(p[1], p[2], z, "none", now)
    \/ \E f \in SaveFaults, at \in Slots : SaveAll(f, at)

SpecSave == Init /\ [][NextSave]_vars

\* The focal point under MoveTo, with requests for sections in between.
FocusPoints == { <<5000, 5000>>, <<0, 0>>, <<-1, 0>>, <<47, 200>> }

NextFocus ==
    \/ \E p \in FocusPoints : MoveTo(p[1], p[2])
    \/ GetSectionPos
    \/ \E p \in Reads, z \in Zs, now \in Nows : GetShape(p[1], p[2], z, "none", now)

SpecFocus == Init /\ [][NextFocus]_vars

\* ------------------------------------------------------------------------
\* The window's coordinates. Loader.X, Loader.Y is focus; SIZE/2 is 48.
toWorldPos(viewX, viewY, viewZ) ==
    <<viewX + (focus[1] - SIZE \div 2), viewY + (focus[2] - SIZE \div 2), viewZ>>

isValidViewPosInclusive(viewX, viewY, viewZ) ==
    ~(viewX < 0 \/ viewX > SIZE \/ viewY < 0 \/ viewY > SIZE
        \/ viewZ < 0 \/ viewZ > SECTION_Z_SIZE)

isValidViewPos(viewX, viewY, viewZ) ==
    ~(viewX < 0 \/ viewX >= SIZE \/ viewY < 0 \/ viewY >= SIZE
        \/ viewZ < 0 \/ viewZ >= SECTION_Z_SIZE)

toViewPos(worldX, worldY, worldZ) ==
    [x |-> worldX - (focus[1] - SIZE \div 2),
     y |-> worldY - (focus[2] - SIZE \div 2),
     z |-> worldZ,
     ok |-> isValidViewPos(worldX - (focus[1] - SIZE \div 2),
                           worldY - (focus[2] - SIZE \div 2), worldZ)]
CellOf(t) == <<t.x, t.y, t.z>>

\* A cell's fields: pos.Block, box, pathNode, and the world coordinates Load
\* gave it (v.origin is the Loader's position at the last Load).
blockOf(v, c) == IF c \in DOMAIN v.pos THEN v.pos[c] ELSE 0
boxOf(v, c) == IF c \in DOMAIN v.box THEN v.box[c] ELSE NoBox
nodeOf(pn, c) == IF c \in DOMAIN pn THEN pn[c] ELSE NewPathNode
worldOf(v, c) ==
    <<c[1] + (v.origin[1] - SIZE \div 2), c[2] + (v.origin[2] - SIZE \div 2), c[3]>>
ShapeBox(c, block) ==
    BoundingBox(c[1], c[2], c[3],
                Shapes[block].Size[1], Shapes[block].Size[2], Shapes[block].Size[3])

\* View.setPos: the cell refers to the position; an occupied cell's box is
\* set to the shape's footprint, an empty cell's box is left as it was.
setPos(v, c, block) ==
    IF block > 0
    THEN [v EXCEPT !.pos = Put(@, c, block), !.box = Put(@, c, ShapeBox(c, block))]
    ELSE [v EXCEPT !.pos = Drop(@, c)]

\* ------------------------------------------------------------------------
\* The collision engine.
\* View.search visits the cells of the cube of side SEARCH_SIZE that ends at
\* (viewX, viewY, viewZ), from the largest x, then y, then z, down, and stops
\* at the first occupied cell fx accepts (fx maps a cell to the callback's
\* answer for it).
InCube(c, viewX, viewY, viewZ) ==
    /\ c[1] <= viewX /\ c[1] > viewX - SEARCH_SIZE
    /\ c[2] <= viewY /\ c[2] > viewY - SEARCH_SIZE
    /\ c[3] <= viewZ /\ c[3] > viewZ - SEARCH_SIZE
Scanned(v, viewX, viewY, viewZ) ==
    { c \in DOMAIN v.pos : InCube(c, viewX, viewY, viewZ) /\ isValidViewPos(c[1], c[2], c[3]) }
Before(a, b) ==
    \/ a[1] > b[1]
    \/ a[1] = b[1] /\ a[2] > b[2]
    \/ a[1] = b[1] /\ a[2] = b[2] /\ a[3] > b[3]
First(S) == IF S = {} THEN NoCell ELSE CHOOSE c \in S : \A d \in S \ {c} : Before(c, d)
search(v, viewX, viewY, viewZ, fx) == First({ bp \in Scanned(v, viewX, viewY, viewZ) : fx[bp] })

getShapeAt(v, viewX, viewY, viewZ) ==
    search(v, viewX, viewY, viewZ,
           [bp \in DOMAIN v.pos |-> isInside(boxOf(v, bp), viewX, viewY, viewZ)])

\* The local pathThrough of getBlockerAt's scan: while pathing, a cell whose
\* shape is a pass-through shape (when those are in use) or whose Block is
\* the Block of the destination cell.
pathThrough(v, bp) ==
    /\ v.context.isPathing
    /\ \/ v.context.usePathThrough /\ v.pos[bp] \in pathThroughShapes
       \/ blockOf(v, v.context.end) > 0 /\ v.pos[bp] = blockOf(v, v.context.end)

getBlockerAtSelf(v, toViewX, toViewY, toViewZ, box, src) ==
    search(v, toViewX + box.W, toViewY + box.H, toViewZ + box.D,
           [bp \in DOMAIN v.pos |->
                /\ ~pathThrough(v, bp)
                /\ intersect(IF bp = src THEN SetPos(box, toViewX, toViewY, toViewZ)
                             ELSE boxOf(v, bp),
                             SetPos(box, toViewX, toViewY, toViewZ))])

getBlockerAt(v, toViewX, toViewY, toViewZ, box, src) ==
    search(v, toViewX + box.W, toViewY + box.H, toViewZ + box.D,
           [bp \in DOMAIN v.pos |->
                /\ ~pathThrough(v, bp) /\ bp # src
                /\ intersect(boxOf(v, bp), SetPos(box, toViewX, toViewY, toViewZ))])

\* View.GetBlocker for a source cell that is set (a nil context.start is a
\* nil dereference): nothing blocks an empty source cell or a destination
\* outside the window.
getBlockerTo(v, t) ==
    IF ~t.ok THEN NoCell
    ELSE getBlockerAt(v, t.x, t.y, t.z, boxOf(v, v.context.start), v.context.start)
getBlocker(v, toWorld) ==
    IF blockOf(v, v.context.start) = 0 THEN NoCell
    ELSE getBlockerTo(v, toViewPos(toWorld[1], toWorld[2], toWorld[3]))

\* The box getBlockerAt was given, as the call leaves it: its anchor is
\* saved, set to the destination for the scan, and set back. View.GetBlocker
\* passes the box of the source cell itself (&src.box), so that what the
\* call leaves is the box of that cell; Boxed is the View with it.
getBlockerAtBoxLeftThere(toViewX, toViewY, toViewZ, box) ==
    SetPos(box, toViewX, toViewY, toViewZ)
getBlockerAtBox(toViewX, toViewY, toViewZ, box) ==
    SetPos(SetPos(box, toViewX, toViewY, toViewZ), box.X, box.Y, box.Z)
getBlockerBoxTo(v, t) ==
    IF ~t.ok THEN boxOf(v, v.context.start)
    ELSE getBlockerAtBox(t.x, t.y, t.z, boxOf(v, v.context.start))
getBlockerBox(v, toWorld) ==
    IF blockOf(v, v.context.start) = 0 THEN boxOf(v, v.context.start)
    ELSE getBlockerBoxTo(v, toViewPos(toWorld[1], toWorld[2], toWorld[3]))
Boxed(v, box) ==
    IF v.context.start \in DOMAIN v.box THEN [v EXCEPT !.box[v.context.start] = box] ELSE v

\* View.getBlockerWithCache: while pathing the answer for a cell is computed
\* once and kept in its pathNode. box: the box of the source cell after it.
getBlockerFill(pn, node, b, box) ==
    [blocker |-> b, box |-> box,
     pathNode |-> Put(pn, node, [nodeOf(pn, node) EXCEPT !.fitCalled = TRUE, !.blocker = b])]
getBlockerWithCache(v, pn, node) ==
    IF v.context.isPathing
    THEN IF ~nodeOf(pn, node).fitCalled
         THEN getBlockerFill(pn, node, getBlocker(v, worldOf(v, node)),
                             getBlockerBox(v, worldOf(v, node)))
         ELSE [blocker |-> pn[node].blocker, box |-> boxOf(v, v.context.start),
               pathNode |-> pn]
    ELSE [blocker |-> getBlocker(v, worldOf(v, node)),
          box |-> getBlockerBox(v, worldOf(v, node)), pathNode |-> pn]

\* View.tryMove: drop while nothing is below, refuse a landing on a shape
\* that gives no support, else the same level, else one level up. panic:
\* blockPos[x][y][newViewZ+1] is indexed past the top of the window.
NoMove(r) == [node |-> NoCell, pathNode |-> r.pathNode, box |-> r.box, panic |-> FALSE]
RECURSIVE tryMoveDrop(_, _, _, _, _)
tryMoveDropNext(v, x, y, z, r) ==
    IF r.blocker # NoCell
    THEN [z |-> z, standingOn |-> r.blocker, pathNode |-> r.pathNode, box |-> r.box]
    ELSE tryMoveDrop(Boxed(v, r.box), r.pathNode, x, y, z - 1)
tryMoveDrop(v, pn, x, y, z) ==
    IF z > 0 THEN tryMoveDropNext(v, x, y, z, getBlockerWithCache(v, pn, <<x, y, z - 1>>))
    ELSE [z |-> z, standingOn |-> NoCell, pathNode |-> pn, box |-> boxOf(v, v.context.start)]
tryMoveStepUp(x, y, z, r) ==
    IF r.blocker = NoCell
    THEN [node |-> <<x, y, z>>, pathNode |-> r.pathNode, box |-> r.box, panic |-> FALSE]
    ELSE NoMove(r)
tryMoveSameZ(v, x, y, newViewZ, r) ==
    IF r.blocker = NoCell
    THEN [node |-> <<x, y, newViewZ>>, pathNode |-> r.pathNode, box |-> r.box,
          panic |-> FALSE]
    ELSE IF newViewZ + 1 >= SECTION_Z_SIZE
    THEN [node |-> NoCell, pathNode |-> r.pathNode, box |-> r.box, panic |-> TRUE]
    ELSE tryMoveStepUp(x, y, newViewZ + 1,
                       getBlockerWithCache(Boxed(v, r.box), r.pathNode,
                                           <<x, y, newViewZ + 1>>))
tryMoveLandedAtRequested(v, x, y, newViewZ, d) ==
    tryMoveSameZ(v, x, y, newViewZ,
                 getBlockerWithCache(Boxed(v, d.box), d.pathNode, <<x, y, newViewZ>>))
tryMoveLanded(v, x, y, newViewZ, d) ==
    IF ~v.context.isFlying /\ d.standingOn # NoCell /\ Shapes[v.pos[d.standingOn]].NoSupport
    THEN NoMove(d)
    ELSE IF d.z < newViewZ
    THEN [node |-> <<x, y, d.z>>, pathNode |-> d.pathNode, box |-> d.box, panic |-> FALSE]
    ELSE tryMoveSameZ(v, x, y, newViewZ,
                      getBlockerWithCache(Boxed(v, d.box), d.pathNode, <<x, y, newViewZ>>))
tryMove(v, pn, newViewX, newViewY, newViewZ) ==
    tryMoveLanded(v, newViewX, newViewY, newViewZ,
                  tryMoveDrop(v, pn, newViewX, newViewY, newViewZ))

\* ------------------------------------------------------------------------
\* The window-level queries: what each returns in the current state.
\* valid: its coordinates are inside the window; nil: it returns a nil
\* pointer or slice; panic: it dereferences a nil pointer or indexes past an
\* array; reads: the cells it indexed.
Answer(valid, nil, result, reads) ==
    [valid |-> valid, nil |-> nil, result |-> result, reads |-> reads, panic |-> FALSE]
Panics(valid, reads) ==
    [valid |-> valid, nil |-> TRUE, result |-> <<>>, reads |-> reads, panic |-> TRUE]

getShapeFound(b) ==
    IF b = NoCell THEN Answer(TRUE, FALSE, <<0, 0, 0, 0, FALSE>>, {})
    ELSE Answer(TRUE, FALSE,
                <<view.pos[b] - 1>> \o toWorldPos(b[1], b[2], b[3]) \o <<TRUE>>, {b})
getShapeIn(t) ==
    IF ~t.ok THEN Answer(FALSE, FALSE, <<0, 0, 0, 0, FALSE>>, {})
    ELSE getShapeFound(getShapeAt(view, t.x, t.y, t.z))
getShape(world) == getShapeIn(toViewPos(world[1], world[2], world[3]))

getBlockerFound(valid, b) == Answer(valid, b = NoCell, b, {view.context.start})
getBlockerAnswer(world) ==
    IF view.context.start = NoCell
    THEN Panics(toViewPos(world[1], world[2], world[3]).ok, {})
    ELSE getBlockerFound(toViewPos(world[1], world[2], world[3]).ok, getBlocker(view, world))

isEmptyIn(t, shape) ==
    IF ~t.ok THEN Answer(FALSE, FALSE, <<FALSE>>, {})
    ELSE Answer(TRUE, FALSE,
                <<getBlockerAt(view, t.x, t.y, t.z, ShapeBox(<<0, 0, 0>>, shape), NoCell)
                    = NoCell>>, {})
isEmpty(world, shape) == isEmptyIn(toViewPos(world[1], world[2], world[3]), shape)

\* FindTop: one more than the highest level, below maxZ, at which the
\* footprint meets an occupied cell; 0 when there is none or the column is
\* outside the window.
findTopHits(viewX, viewY, z, box) ==
    \E bp \in Scanned(view, viewX + box.W, viewY + box.H, z + box.D) :
        intersect(boxOf(view, bp), SetPos(box, viewX, viewY, z)) /\ bp[3] < view.maxZ
findTopOf(levels) == IF levels = {} THEN 0 ELSE (CHOOSE z \in levels : \A y \in levels : y <= z) + 1
findTopIn(t, shape) ==
    IF ~t.ok THEN Answer(FALSE, FALSE, <<0>>, {})
    ELSE Answer(TRUE, FALSE,
                <<findTopOf({ z \in 0..(view.maxZ - 1) :
                                findTopHits(t.x, t.y, z, ShapeBox(<<0, 0, 0>>, shape)) })>>, {})
findTop(worldX, worldY, shape) == findTopIn(toViewPos(worldX, worldY, 0), shape)

getBlockPosIn(t) ==
    IF t.ok THEN Answer(TRUE, FALSE, CellOf(t), {CellOf(t)}) ELSE Answer(FALSE, TRUE, NoCell, {})
getBlockPos(world) == getBlockPosIn(toViewPos(world[1], world[2], world[3]))

\* A call the View makes on the Loader: the world cell it is made for, the
\* cell of the window whose pointer is taken from what GetPos returns (none
\* for SetShape and EraseShape), and whether Load makes it.
Ask(world, cell, section) == [world |-> world, cell |-> cell, section |-> section]

\* View.EraseShapeExact and View.SetShape on a cell of the window: the
\* Loader empties or fills the position of the cached Section, which is the
\* position the cell refers to unless its Section has left the cache, and
\* SetShape takes the cell's pointer again and refreshes the cell with
\* setPos.
eraseShapeExactKeepsShape(v, c) == v
eraseShapeExact(v, c) ==
    IF blockOf(v, c) > 0 /\ Fresh(v, c) THEN [v EXCEPT !.pos = Drop(@, c)] ELSE v
setShape(v, c, shapeIndex) == setPos(v, c, shapeIndex + 1)

\* View.MoveShape: -1 when an end is outside the window or tryMove finds no
\* place; else the shape of the source cell, if it has one, is moved.
moveShapeMoved(v, from, to) ==
    IF blockOf(v, from) > 0 THEN setShape(eraseShapeExact(v, from), to, v.pos[from] - 1) ELSE v
moveShapeAsks(v, from, to) ==
    IF blockOf(v, from) > 0
    THEN <<Ask(toWorldPos(from[1], from[2], from[3]), NoCell, FALSE),
           Ask(toWorldPos(to[1], to[2], to[3]), NoCell, FALSE),
           Ask(toWorldPos(to[1], to[2], to[3]), to, FALSE)>>
    ELSE <<>>
Moved(a, v, asks) ==
    [valid |-> a.valid, nil |-> a.nil, result |-> a.result, reads |-> a.reads,
     panic |-> a.panic, view |-> v, asks |-> asks]
moveShapeDone(v, from, m) ==
    IF m.panic THEN Moved(Panics(TRUE, {from}), Boxed(v, m.box), <<>>)
    ELSE IF m.node = NoCell
    THEN Moved(Answer(TRUE, FALSE, <<-1>>, {from}), Boxed(v, m.box), <<>>)
    ELSE Moved(Answer(TRUE, FALSE, <<m.node[3]>>, {from, m.node}),
               moveShapeMoved(Boxed(v, m.box), from, m.node), moveShapeAsks(v, from, m.node))
moveShapeFrom(v, newViewX, newViewY, worldZ) ==
    moveShapeDone(v, v.context.start, tryMove(v, v.pathNode, newViewX, newViewY, worldZ))
moveShapeIn(t0, t1, isFlying) ==
    IF ~t1.ok \/ ~t0.ok THEN Moved(Answer(FALSE, FALSE, <<-1>>, {}), view, <<>>)
    ELSE moveShapeFrom([view EXCEPT !.context.isPathing = FALSE,
                                    !.context.isFlying = isFlying,
                                    !.context.start = CellOf(t0)],
                       t1.x, t1.y, t0.z)
moveShape(world, newWorldX, newWorldY, isFlying) ==
    moveShapeIn(toViewPos(world[1], world[2], world[3]), toViewPos(newWorldX, newWorldY, 0),
                isFlying)

\* View.SetShape: the Loader stores the shape; inside the window the cell's
\* pointer is taken again and its box set, and the cell is returned.
viewSetShapeIn(world, t, shapeIndex) ==
    IF t.ok
    THEN Moved(Answer(TRUE, FALSE, CellOf(t), {CellOf(t)}),
               setShape(view, CellOf(t), shapeIndex),
               <<Ask(world, NoCell, FALSE), Ask(world, CellOf(t), FALSE)>>)
    ELSE Moved(Answer(FALSE, TRUE, NoCell, {}), view, <<Ask(world, NoCell, FALSE)>>)
viewSetShape(world, shapeIndex) ==
    viewSetShapeIn(world, toViewPos(world[1], world[2], world[3]), shapeIndex)

\* View.EraseShapeExact: on an occupied cell of the window the Loader's
\* EraseShape is called and the cell and its shape are returned; else nil, 0.
eraseShapeExactIn(world, t) ==
    IF t.ok /\ blockOf(view, CellOf(t)) > 0
    THEN Moved(Answer(TRUE, FALSE, <<CellOf(t), view.pos[CellOf(t)] - 1>>, {CellOf(t)}),
               eraseShapeExact(view, CellOf(t)), <<Ask(world, NoCell, FALSE)>>)
    ELSE Moved(Answer(t.ok, TRUE, <<NoCell, 0>>, IF t.ok THEN {CellOf(t)} ELSE {}), view, <<>>)
viewEraseShapeExact(world) == eraseShapeExactIn(world, toViewPos(world[1], world[2], world[3]))

\* View.EraseShape: the shape GetShape finds at the cell is erased at its
\* origin and the cell returned; when GetShape finds none (outside the
\* window it finds none) the Loader's EraseShape is called for the cell.
viewEraseShapeFound(world, t, g) ==
    IF g.result[5]
    THEN Moved(Answer(TRUE, FALSE, <<CellOf(t), g.result[1]>>, g.reads \cup {CellOf(t)}),
               eraseShapeExact(view, CHOOSE b \in g.reads : TRUE),
               <<Ask(<<g.result[2], g.result[3], g.result[4]>>, NoCell, FALSE)>>)
    ELSE Moved(Answer(t.ok, TRUE, <<NoCell, 0>>, {}), view, <<Ask(world, NoCell, FALSE)>>)
viewEraseShape(world) ==
    viewEraseShapeFound(world, toViewPos(world[1], world[2], world[3]), getShape(world))

\* ------------------------------------------------------------------------
\* The pathfinder.
AbsInt(a) == IF a < 0 THEN -a ELSE a

heuristic(v, pos0, pos1) ==
      AbsInt(pos1[1] + v.context.startBox.W \div 2 - pos0[1] + v.context.endBox.W \div 2)
    + AbsInt(pos1[2] + v.context.startBox.W \div 2 - pos0[2] + v.context.endBox.W \div 2)
    + AbsInt(pos1[3] + v.context.startBox.W \div 2 - pos0[3] + v.context.endBox.W \div 2)

\* the first cell of the open list with the lowest f
lowInd(pn, openList) ==
    CHOOSE i \in 1..Len(openList) :
        /\ \A j \in 1..Len(openList) : nodeOf(pn, openList[j]).f >= nodeOf(pn, openList[i]).f
        /\ \A j \in 1..(i - 1) : nodeOf(pn, openList[j]).f > nodeOf(pn, openList[i]).f

remove(s, i) == [j \in 1..(Len(s) - 1) |-> IF j = i THEN s[Len(s)] ELSE s[j]]
reverse(nodes) == [i \in 1..Len(nodes) |-> nodes[Len(nodes) - i + 1]]

\* generatePath: the cells from currentNode back to the one without a
\* parent, that one left out, as world coordinates, then reversed.
RECURSIVE generatePathBack(_, _)
generatePathBack(pn, currentNode) ==
    IF nodeOf(pn, currentNode).parent = NoCell THEN <<>>
    ELSE <<toWorldPos(currentNode[1], currentNode[2], currentNode[3])>>
            \o generatePathBack(pn, pn[currentNode].parent)
generatePathUnreversed(pn, currentNode) == generatePathBack(pn, currentNode)
generatePathWithStart(pn, currentNode) ==
    reverse(generatePathBack(pn, currentNode)
                \o <<toWorldPos(view.context.start[1], view.context.start[2],
                                view.context.start[3])>>)
generatePath(pn, currentNode) == reverse(generatePathBack(pn, currentNode))

\* astarNeighbors: tryMove to the west, east, north and south of the node,
\* where that stays inside the window, in this order.
tryInDirTo(acc, m) ==
    [ret |-> IF m.node # NoCell THEN Append(acc.ret, m.node) ELSE acc.ret,
     pathNode |-> m.pathNode, box |-> m.box, panic |-> m.panic]
tryInDir(v, acc, node, dx, dy, inside) ==
    IF ~inside \/ acc.panic THEN acc
    ELSE tryInDirTo(acc, tryMove(Boxed(v, acc.box), acc.pathNode, node[1] + dx, node[2] + dy,
                                 node[3]))
astarNeighbors(v, pn, node) ==
    tryInDir(v,
        tryInDir(v,
            tryInDir(v,
                tryInDir(v, [ret |-> <<>>, pathNode |-> pn,
                             box |-> boxOf(v, v.context.start), panic |-> FALSE],
                         node, -1, 0, node[1] - 1 >= 0),
                node, 1, 0, node[1] + 1 < SIZE),
            node, 0, -1, node[2] - 1 >= 0),
        node, 0, 1, node[2] + 1 < SIZE)

\* The body of findPath's loop over the neighbors of currentNode.
acceptStaleF(nd, currentNode, gScore) == [nd EXCEPT !.parent = currentNode, !.g = gScore]
accept(nd, currentNode, gScore) ==
    [nd EXCEPT !.parent = currentNode, !.g = gScore, !.f = gScore + nd.h]
visitNodeAppendsAgain(v, s, currentNode, neighbor, nd, gScore) ==
    IF nd.closed \/ (nd.visited /\ gScore >= nd.g) THEN s
    ELSE [pathNode |-> Put(s.pathNode, neighbor,
                           accept([nd EXCEPT !.h = heuristic(v, neighbor, v.context.end),
                                             !.visited = TRUE],
                                  currentNode, gScore)),
          openList |-> Append(s.openList, neighbor)]
visitNode(v, s, currentNode, neighbor, nd, gScore) ==
    IF nd.closed THEN s
    ELSE IF ~nd.visited
    THEN [pathNode |-> Put(s.pathNode, neighbor,
                           accept([nd EXCEPT !.h = heuristic(v, neighbor, v.context.end),
                                             !.visited = TRUE],
                                  currentNode, gScore)),
          openList |-> Append(s.openList, neighbor)]
    ELSE IF gScore < nd.g
    THEN [pathNode |-> Put(s.pathNode, neighbor, accept(nd, currentNode, gScore)),
          openList |-> s.openList]
    ELSE s
RECURSIVE visit(_, _, _, _, _)
visit(v, s, currentNode, neighbors, i) ==
    IF i > Len(neighbors) THEN s
    ELSE visit(v,
               visitNode(v, s, currentNode, neighbors[i], nodeOf(s.pathNode, neighbors[i]),
                         nodeOf(s.pathNode, currentNode).g + 1),
               currentNode, neighbors, i + 1)

\* ------------------------------------------------------------------------
\* The calls on the View, each on a loaded window and one at a time.
LoaderVars == <<cache, times, ioMode, focus, files, status, call, trace, order, loads, written>>
Ready == status = "running" /\ view.loaded /\ query.pc = "idle" /\ ~query.panic

\* The calls a handler of the View makes on the Loader, one after the other,
\* none of them failing in the file system: T holds the store, the View and
\* the notifications so far. Each call goes through getSection; a Section
\* it takes out of the cache leaves the pointers into it behind, and
\* GetPos (its body is not among the sources; it is taken to return the
\* address of the position in the cached Section) gives the cell, or for
\* Load the cells of the section, a pointer into the cached Section. A call for a cell outside the arrays
\* of its section panics after getSection.
NoAsks(v) == [store |-> Store, view |-> v, trace |-> <<>>, panic |-> FALSE]
askKey(e) == <<GoDiv(e.world[1], SECTION_SIZE), GoDiv(e.world[2], SECTION_SIZE)>>
askInBounds(e) ==
    /\ InRangeXY(GoMod(e.world[1], SECTION_SIZE)) /\ InRangeXY(GoMod(e.world[2], SECTION_SIZE))
    /\ InRangeZ(e.world[3])
Link(v, e) ==
    [v EXCEPT !.linked = IF e.section THEN @ \cup {askKey(e)} ELSE @,
              !.relinked = IF e.cell # NoCell THEN @ \cup {e.cell} ELSE @]
asked(T, e, got) ==
    [store |-> got, trace |-> T.trace \o got.trace, panic |-> ~askInBounds(e),
     view |-> IF askInBounds(e) THEN Link(Unlink(T.view, got.cache), e)
              ELSE Unlink(T.view, got.cache)]
ask(T, e, now) == asked(T, e, getSection(T.store, askKey(e)[1], askKey(e)[2], "none", now))
RECURSIVE askAll(_, _, _, _)
askAll(T, asks, i, now) ==
    IF i > Len(asks) \/ T.panic THEN T
    ELSE askAll(ask(T, asks[i], now), asks, i + 1, now)

\* What the calls leave in the Loader; call is the last of them.
Asked(T, asks) ==
    /\ loads' = loads + Count(T.trace, "SectionLoad")
    /\ loads' <= MaxViewLoads
    /\ cache' = T.store.cache
    /\ times' = T.store.times
    /\ files' = T.store.files
    /\ order' = T.store.order
    /\ status' = IF T.panic THEN "panic" ELSE status
    /\ trace' = IF asks = <<>> THEN trace ELSE T.trace
    /\ call' = IF asks = <<>> THEN call
               ELSE [NoCall EXCEPT !.op = "View", !.args = asks[Len(asks)].world,
                                   !.ok = ~T.panic]
    /\ UNCHANGED <<ioMode, focus, written>>

Return(op, args, a) ==
    query' = [op |-> op, args |-> args, pc |-> "idle", valid |-> a.valid, nil |-> a.nil,
              result |-> a.result, reads |-> a.reads, passes |-> 0, openList |-> <<>>,
              panic |-> a.panic]

\* View.Load over a world whose cells under the window hold w: every cell
\* gets its world coordinates and, through setPos, its position. The runner
\* loads the window once and again whenever MoveTo has moved the Loader.
\* traverse visits x, then y, then z: with the window over two sections in
\* x and two in y, GetPos is called for the two sections of the first 48
\* columns in turn, column after column, then for the two of the last 48.
\* Calls that find their section in the cache with the same time change
\* nothing, so each pair is asked for twice; a pair that is not in the
\* cache when asked for again is loaded for every column, more often than
\* MaxViewLoads.
loadAsks(x) ==
    <<Ask(toWorldPos(x, 0, 0), NoCell, TRUE), Ask(toWorldPos(x, SIZE - 1, 0), NoCell, TRUE)>>
loadView(w) ==
    [view EXCEPT !.pos = w,
                 !.box = [c \in DOMAIN view.box \cup DOMAIN w |->
                             IF c \in DOMAIN w THEN ShapeBox(c, w[c])
                             ELSE view.box[c]],
                 !.origin = focus,
                 !.loaded = TRUE,
                 !.linked = {}, !.relinked = {}]
loadLeft(now, w) == askAll(NoAsks(loadView(w)), loadAsks(0), 1, now)
Load(w, now) ==
    /\ status = "running" /\ query.pc = "idle" /\ ~query.panic
    /\ ~view.loaded \/ view.origin # focus
    /\ \E t1 \in {loadLeft(now, w)} :
       \E t2 \in {askAll(t1, loadAsks(0), 1, now)} :
       \E t3 \in {askAll(t2, loadAsks(SIZE - 1), 1, now)} :
       \E t4 \in {askAll(t3, loadAsks(SIZE - 1), 1, now)} :
         /\ Len(t2.trace) = Len(t1.trace) /\ Len(t4.trace) = Len(t3.trace)
         /\ view' = IF t4.panic THEN view ELSE t4.view
         /\ Asked(t4, loadAsks(SIZE - 1))
    /\ UNCHANGED query

ViewGetShape(world) ==
    /\ Ready
    /\ Return("GetShape", world, getShape(world))
    /\ UNCHANGED <<LoaderVars, view>>

GetBlocker(world) ==
    /\ Ready
    /\ Return("GetBlocker", world, getBlockerAnswer(world))
    /\ view' = Boxed(view, getBlockerBox(view, world))
    /\ UNCHANGED LoaderVars

IsEmpty(world, shape) ==
    /\ Ready
    /\ Return("IsEmpty", world \o <<shape>>, isEmpty(world, shape))
    /\ UNCHANGED <<LoaderVars, view>>

FindTop(worldX, worldY, shape) ==
    /\ Ready
    /\ Return("FindTop", <<worldX, worldY, shape>>, findTop(worldX, worldY, shape))
    /\ UNCHANGED <<LoaderVars, view>>

\* View.SetMaxZ: the level below which FindTop (and the renderer) looks.
SetMaxZ(z) ==
    /\ Ready
    /\ view' = [view EXCEPT !.maxZ = z]
    /\ UNCHANGED <<LoaderVars, query>>

GetBlockPos(world) ==
    /\ Ready
    /\ Return("GetBlockPos", world, getBlockPos(world))
    /\ UNCHANGED <<LoaderVars, view>>

MoveShape(world, newWorldX, newWorldY, isFlying, now) ==
    /\ Ready
    /\ \E a \in {moveShape(world, newWorldX, newWorldY, isFlying)} :
       \E T \in {askAll(NoAsks(a.view), a.asks, 1, now)} :
         /\ view' = T.view
         /\ Return("MoveShape", world \o <<newWorldX, newWorldY, isFlying>>, a)
         /\ Asked(T, a.asks)

ViewSetShape(world, shapeIndex, now) ==
    /\ Ready
    /\ \E a \in {viewSetShape(world, shapeIndex)} :
       \E T \in {askAll(NoAsks(a.view), a.asks, 1, now)} :
         /\ view' = T.view
         /\ Return("SetShape", world \o <<shapeIndex>>, a)
         /\ Asked(T, a.asks)

EraseShapeExact(world, now) ==
    /\ Ready
    /\ \E a \in {viewEraseShapeExact(world)} :
       \E T \in {askAll(NoAsks(a.view), a.asks, 1, now)} :
         /\ view' = T.view
         /\ Return("EraseShapeExact", world, a)
         /\ Asked(T, a.asks)

ViewEraseShape(world, now) ==
    /\ Ready
    /\ \E a \in {viewEraseShape(world)} :
       \E T \in {askAll(NoAsks(a.view), a.asks, 1, now)} :
         /\ view' = T.view
         /\ Return("EraseShape", world, a)
         /\ Asked(T, a.asks)

\* View.resetPathFind: every cell's scratch state is zeroed.
resetPathFindKeepsBlockers(pn) ==
    [c \in DOMAIN pn |-> [NewPathNode EXCEPT !.fitCalled = pn[c].fitCalled,
                                             !.blocker = pn[c].blocker]]
resetPathFind(pn) == NoCells

\* FindPath searches when both ends are inside the window (startOk && endOk)
endsInsideStartOnly(ts, te) == ts.ok

endsInside(ts, te) == ts.ok /\ te.ok

\* what FindPath returns when an end is outside the window: var steps, nil
findPathOutside == Answer(FALSE, TRUE, <<>>, {})

\* FindPath's way out, with or without a search: view.context.isPathing = false
findPathReturnsPathing(v) == v
findPathReturns(v) == [v EXCEPT !.context.isPathing = FALSE]

\* View.FindPath up to the first search: outside the window it returns nil
\* at once; inside it sets the context and enters findPath, which resets
\* the scratch state and opens the start cell.
FindPath(s, e, isFlying, dSrc, dDst) ==
    /\ Ready
    /\ \E ts \in {toViewPos(s[1], s[2], s[3])}, te \in {toViewPos(e[1], e[2], e[3])} :
         IF endsInside(ts, te)
         THEN /\ view' = [view EXCEPT
                    !.context = [isFlying |-> isFlying, isPathing |-> TRUE,
                                 usePathThrough |-> FALSE,
                                 start |-> CellOf(ts), end |-> CellOf(te),
                                 startBox |-> BoundingBox(ts.x, ts.y, ts.z, dSrc, dSrc,
                                                          PathBoxDepth),
                                 endBox |-> BoundingBox(te.x, te.y, te.z, dDst, dDst,
                                                        PathBoxDepth)],
                    !.pathNode = resetPathFind(view.pathNode)]
              /\ query' = [op |-> "FindPath", args |-> <<s, e, isFlying, dSrc, dDst>>,
                           pc |-> "search", valid |-> TRUE, nil |-> TRUE, result |-> <<>>,
                           reads |-> {CellOf(ts), CellOf(te)}, passes |-> 1,
                           openList |-> <<CellOf(ts)>>, panic |-> FALSE]
         ELSE /\ view' = findPathReturns([view EXCEPT !.context.isFlying = isFlying,
                                                      !.context.isPathing = TRUE])
              /\ Return("FindPath", <<s, e, isFlying, dSrc, dDst>>, findPathOutside)
    /\ UNCHANGED LoaderVars

\* One turn of findPath's loop. With the open list empty findPath returns
\* nil: FindPath then runs it again with the pass-through shapes in use, or,
\* if that was the run, returns nil. Else the cell with the lowest f either
\* passes the goal test, and FindPath returns generatePath, or is closed and
\* its neighbors are visited.
searchExpand(currentNode, box, rest, nb) ==
    \E s \in {visit(view, [pathNode |-> nb.pathNode, openList |-> rest], currentNode,
                    nb.ret, 1)} :
        /\ view' = [Boxed(view, nb.box) EXCEPT !.pathNode = s.pathNode,
                                               !.context.startBox = box,
                                               !.context.isPathing = ~nb.panic]
        /\ query' = [query EXCEPT !.openList = s.openList, !.panic = nb.panic]
searchAt(i, currentNode, box) ==
    IF intersect(box, view.context.endBox)
    THEN /\ view' = findPathReturns([view EXCEPT !.context.startBox = box])
         /\ query' = [query EXCEPT !.pc = "idle", !.nil = FALSE, !.openList = <<>>,
                                   !.result = generatePath(view.pathNode, currentNode)]
    ELSE \E nb \in {astarNeighbors(view,
                                   Put(view.pathNode, currentNode,
                                       [nodeOf(view.pathNode, currentNode)
                                           EXCEPT !.closed = TRUE]),
                                   currentNode)} :
            searchExpand(currentNode, box, remove(query.openList, i), nb)
Search ==
    /\ query.pc = "search" /\ ~query.panic
    /\ IF query.openList = <<>>
       THEN IF ~view.context.usePathThrough
            THEN /\ view' = [view EXCEPT !.context.usePathThrough = TRUE,
                                         !.pathNode = resetPathFind(view.pathNode)]
                 /\ query' = [query EXCEPT !.passes = 2,
                                           !.openList = <<view.context.start>>]
            ELSE /\ view' = findPathReturns(view)
                 /\ query' = [query EXCEPT !.pc = "idle", !.nil = TRUE, !.result = <<>>]
       ELSE \E i \in {lowInd(view.pathNode, query.openList)} :
              searchAt(i, query.openList[i],
                       SetPos(view.context.startBox, query.openList[i][1],
                              query.openList[i][2], query.openList[i][3]))
    /\ UNCHANGED LoaderVars

\* ------------------------------------------------------------------------
\* The windows the View is loaded over, in view coordinates: nothing; a room
\* of 3 x 3 cells in the corner of the window, closed by wall pieces and by a
\* gate (a wall piece or a door), with a creature inside; a creature in the
\* air and one on the ground next to a puddle, with a crate nearby; a
\* creature in the open with a door beside it and a second door further on;
\* a creature on the top level of the window next to two stacked crates.
Window(cells) == [c \in { e[1] : e \in cells } |-> (CHOOSE e \in cells : e[1] = c)[2]]
Room(gate) ==
    Window({ <<<<1, 1, 0>>, 1>>, <<<<3, 1, 0>>, gate>>,
             <<<<3, 0, 0>>, 2>>, <<<<3, 2, 0>>, 2>>,
             <<<<0, 3, 0>>, 2>>, <<<<1, 3, 0>>, 2>>, <<<<2, 3, 0>>, 2>> })
Ledge ==
    Window({ <<<<10, 10, 2>>, 1>>, <<<<12, 10, 0>>, 1>>, <<<<11, 10, 0>>, 4>>,
             <<<<10, 11, 0>>, 5>> })
Doors == Window({ <<<<30, 30, 0>>, 1>>, <<<<31, 30, 0>>, 3>>, <<<<33, 30, 0>>, 3>> })
Shaft ==
    Window({ <<<<40, 40, SECTION_Z_SIZE - 1>>, 1>>, <<<<41, 40, SECTION_Z_SIZE - 2>>, 5>>,
             <<<<41, 40, SECTION_Z_SIZE - 1>>, 5>> })
Windows == { NoCells, Room(2), Room(3), Ledge, Doors }

\* The coordinates asked about, as cells of the window (some outside it),
\* the moves (from, to, isFlying) and the paths (start, end, isFlying, dDst).
Probes == { <<1, 1, 0>>, <<11, 10, 1>>, <<-1, 0, 0>> }
HighProbes == { <<3, 1, 0>>, <<5, 5, 24>> }
Columns == { <<11, 10>>, <<4, 4>>, <<96, 5>> }
Moves ==
    { <<<<10, 10, 2>>, <<11, 10>>, FALSE>>, <<<<10, 10, 2>>, <<11, 10>>, TRUE>>,
      <<<<10, 10, 2>>, <<10, 11>>, FALSE>>, <<<<10, 10, 2>>, <<9, 10>>, FALSE>>,
      <<<<12, 10, 0>>, <<11, 10>>, FALSE>>, <<<<12, 10, 0>>, <<96, 10>>, FALSE>>,
      <<<<5, 5, 24>>, <<4, 4>>, TRUE>> }
Climbs ==
    { <<<<1, 1, 0>>, <<3, 1>>, FALSE>>, <<<<12, 10, 0>>, <<13, 10>>, FALSE>>,
      <<<<40, 40, SECTION_Z_SIZE - 1>>, <<41, 40>>, FALSE>>,
      <<<<40, 40, SECTION_Z_SIZE - 1>>, <<39, 40>>, FALSE>> }
Trips ==
    { <<<<1, 1, 0>>, <<5, 1, 0>>, FALSE, 1>>, <<<<10, 10, 0>>, <<20, 10, 0>>, FALSE, 1>>,
      <<<<20, 10, 0>>, <<10, 10, 0>>, TRUE, 2>>, <<<<1, 1, 0>>, <<3, 0, 0>>, FALSE, 1>>,
      <<<<1, 1, 0>>, <<1, 1, 0>>, FALSE, 1>>, <<<<12, 10, 0>>, <<9, 10, 0>>, FALSE, 1>>,
      <<<<1, 1, 0>>, <<96, 5, 0>>, FALSE, 1>>, <<<<-1, 0, 0>>, <<5, 1, 0>>, TRUE, 1>>,
      <<<<30, 30, 0>>, <<33, 30, 0>>, FALSE, 1>> }
At(c) == toWorldPos(c[1], c[2], c[3])

NextView ==
    \/ \E w \in Windows, now \in Frame : Load(w, now)
    \/ \E c \in Probes \cup HighProbes : ViewGetShape(At(c))
    \/ \E c \in Probes : GetBlocker(At(c))
    \/ \E c \in Probes \cup HighProbes : IsEmpty(At(c), 1)
    \/ \E c \in Columns : FindTop(At(<<c[1], c[2], 0>>)[1], At(<<c[1], c[2], 0>>)[2], 1)
    \/ \E c \in HighProbes : GetBlockPos(At(c))
    \/ \E m \in Moves, now \in Frame :
         MoveShape(At(m[1]), At(<<m[2][1], m[2][2], 0>>)[1], At(<<m[2][1], m[2][2], 0>>)[2],
                   m[3], now)
    \/ \E t \in Trips : FindPath(At(t[1]), At(t[2]), t[3], 1, t[4])
    \/ Search
SpecView == Init /\ [][NextView]_vars

\* The pathfinder alone: the paths above, two with a mover of footprint
\* radius 2 and one on which a cell is first reached the long way round,
\* as (start, end, isFlying, dSrc, dDst).
Walks ==
    { <<t[1], t[2], t[3], 1, t[4]>> : t \in Trips }
        \cup { <<<<10, 10, 0>>, <<14, 10, 0>>, FALSE, 2, 1>>,
               <<<<10, 10, 0>>, <<13, 12, 0>>, FALSE, 2, 2>>,
               <<<<48, 52, 0>>, <<53, 49, 0>>, FALSE, 1, 1>> }
NextPath ==
    \/ \E w \in Windows, now \in Frame : Load(w, now)
    \/ \E t \in Walks : FindPath(At(t[1]), At(t[2]), t[3], t[4], t[5])
    \/ Search
SpecPath == Init /\ [][NextPath]_vars
\* findPath is a loop of one thread: once entered it keeps running. This is
\* weak fairness of Search, WF_vars(Search), with ENABLED <<Search>>_vars
\* written out as Search's guard (every Search step changes query).
Searching == query.pc = "search" /\ ~query.panic
SpecPathFair == SpecPath /\ ([]<>(~Searching) \/ []<><<Search>>_vars)

\* The movers alone: every window, every move, and the moves that ask for
\* the column the mover is in.
Stays == { <<<<12, 10, 0>>, <<12, 10>>, FALSE>>, <<<<10, 10, 2>>, <<10, 10>>, FALSE>> }
NextMove ==
    \/ \E w \in Windows \cup {Shaft}, now \in Frame : Load(w, now)
    \/ \E m \in Moves \cup Climbs \cup Stays, now \in Frame :
         MoveShape(At(m[1]), At(<<m[2][1], m[2][2], 0>>)[1], At(<<m[2][1], m[2][2], 0>>)[2],
                   m[3], now)
SpecMove == Init /\ [][NextMove]_vars

\* The window under a moving Loader: coordinates at the edges of the window
\* are asked about at each position of the Loader.
EdgeProbes ==
    { <<0, 0, 0>>, <<-1, 0, 0>>, <<0, -1, 0>>, <<0, 0, -1>>,
      <<SIZE - 1, SIZE - 1, SECTION_Z_SIZE - 1>>, <<SIZE, SIZE - 1, SECTION_Z_SIZE - 1>>,
      <<SIZE - 1, SIZE, SECTION_Z_SIZE - 1>>, <<SIZE - 1, SIZE - 1, SECTION_Z_SIZE>>,
      <<0, SIZE - 1, 0>>, <<SIZE, 0, 0>> }
WindowReads == { <<51400, 200>> }
NextWindow ==
    \/ \E p \in FocusPoints : MoveTo(p[1], p[2])
    \/ \E w \in { NoCells, Ledge }, now \in Nows : Load(w, now)
    \/ \E c \in EdgeProbes : GetBlockPos(At(c))
    \/ \E p \in WindowReads, now \in Nows : GetShape(p[1], p[2], 0, "none", now)
SpecWindow == Init /\ [][NextWindow]_vars

\* The window and the section cache under it: shapes are set and erased on
\* two cells of the window (one in section 24,24 and one in section 25,25)
\* and erased at a coordinate far outside it, in section 0,0, as View.EraseShape
\* is for a creature that is no longer in view.
LinkCells == { <<40, 40, 0>>, <<50, 50, 0>> }
FarAway == <<0, 0, 0>>
Crate == Len(Shapes)
NextLinks ==
    \/ \E now \in Nows : Load(NoCells, now)
    \/ \E c \in LinkCells, now \in Nows : ViewSetShape(At(c), Crate - 1, now)
    \/ \E c \in LinkCells, now \in Nows : EraseShapeExact(At(c), now)
    \/ \E p \in { At(c) : c \in LinkCells } \cup {FarAway}, now \in Nows : ViewEraseShape(p, now)
    \/ \E c \in LinkCells : IsEmpty(At(c), Crate)
SpecLinks == Init /\ [][NextLinks]_vars

\* The doors: a creature behind a gate that is a door and a creature with two
\* doors in its way; paths through the doors and one to a cell outside the
\* window, then moves into the doors and IsEmpty on them.
DoorCells == { <<3, 1, 0>>, <<31, 30, 0>>, <<33, 30, 0>>, <<2, 1, 0>> }
DoorTrips == { <<<<1, 1, 0>>, <<5, 1, 0>>>>, <<<<30, 30, 0>>, <<33, 30, 0>>>>,
               <<<<1, 1, 0>>, <<96, 5, 0>>>> }
DoorMoves == { <<<<1, 1, 0>>, <<3, 1>>>>, <<<<30, 30, 0>>, <<31, 30>>>>,
               <<<<30, 30, 0>>, <<30, 31>>>> }
NextDoors ==
    \/ \E w \in { Room(3), Doors }, now \in Frame : Load(w, now)
    \/ \E t \in DoorTrips : FindPath(At(t[1]), At(t[2]), FALSE, 1, 1)
    \/ Search
    \/ \E c \in DoorCells : IsEmpty(At(c), 1)
    \/ \E m \in DoorMoves, now \in Frame :
         MoveShape(At(m[1]), At(<<m[2][1], m[2][2], 0>>)[1], At(<<m[2][1], m[2][2], 0>>)[2],
                   FALSE, now)
SpecDoors == Init /\ [][NextDoors]_vars

\* FindTop alone: every window, with the full height and with the levels
\* from 3 up cut off, for a crate and for a creature, in the columns of the
\* shapes, an empty column and one outside the window.
TopColumns == Columns \cup { <<10, 10>>, <<10, 11>>, <<40, 40>>, <<41, 40>> }
TopShapes == { 1, Crate }
MaxZs == { 3, SECTION_Z_SIZE }
NextTop ==
    \/ \E w \in Windows \cup {Shaft}, now \in Frame : Load(w, now)
    \/ \E z \in MaxZs : SetMaxZ(z)
    \/ \E c \in TopColumns, shape \in TopShapes :
         FindTop(At(<<c[1], c[2], 0>>)[1], At(<<c[1], c[2], 0>>)[2], shape)
SpecTop == Init /\ [][NextTop]_vars

\* ------------------------------------------------------------------------
\* Vocabulary of the properties
Occupied == { i \in Slots : cache[i].ptr }
KeyOf(i) == <<cache[i].X, cache[i].Y>>
Resident == { KeyOf(i) : i \in Occupied }
Min(a, b) == IF a < b THEN a ELSE b
Has(events, ev) == \E k \in 1..Len(events) : events[k].ev = ev
CellCalls == {"SetShape", "EraseShape", "GetShape"}
EdgeCalls == {"SetEdge", "ClearEdge", "GetEdge"}

\* What Loader.GetShape(x, y, z) returns when called in the current state
\* with no failure of the file system; returns is FALSE when the process has
\* stopped or the call does not return.
GetShapeAt(p) ==
    IF status # "running" \/ p.got.err \/ ~InBounds(p)
    THEN [returns |-> FALSE, val |-> 0, ok |-> FALSE]
    ELSE [returns |-> TRUE,
          val |-> found(positionAt(p)).val, ok |-> found(positionAt(p)).ok]
GetShapeNow(x, y, z) ==
    GetShapeAt(getPosInSection(x, y, z, "none", MaxClock))

\* The value last written to a world cell; 0 for a cell never written.
LastWritten(x, y, z) ==
    IF <<<<x, y>>, z>> \in DOMAIN written.position
    THEN written.position[<<<<x, y>>, z>>] ELSE 0

\* ------------------------------------------------------------------------
\* C1: for every world coordinate (x,y,z) with z in range and every shape
\* index i >= 0, SetShape(x,y,z,i) immediately followed by GetShape(x,y,z)
\* returns (i, true), whatever was resident before.
C1_SetThenGet ==
    call.op = "SetShape" =>
        GetShapeNow(call.args[1], call.args[2], call.args[3])
            = [returns |-> TRUE, val |-> call.args[4], ok |-> TRUE]

\* C2: with no I/O failure and the I/O mode unchanged, a section that was
\* evicted and is requested again has the contents it had when evicted:
\* GetShape returns the last value written to the cell (not found for a cell
\* never written).
C2_EvictReloadRoundTrip ==
    (status = "running" /\ call.op = "GetShape") =>
        [val |-> call.val, ok |-> call.ok]
            = found(LastWritten(call.args[1], call.args[2], call.args[3]))

\* A step evicts slot i when the slot holds a section before and a section
\* with another key after.
Evicted(i) ==
    /\ cache[i].ptr /\ cache'[i].ptr
    /\ <<cache[i].X, cache[i].Y>> # <<cache'[i].X, cache'[i].Y>>
SaveEvents == {"write", "torn", "createError"}

\* C3: in every reachable state at most 4 sections are resident and no two
\* occupied slots hold a section with the same (X, Y) key.
C3_AtMostFourDistinct ==
    /\ Cardinality(Occupied) <= 4
    /\ \A i, j \in Occupied : KeyOf(i) = KeyOf(j) => i = j

C3_FullAfterEviction ==
    /\ Cardinality(Occupied) = 4
    /\ Has(trace, "SectionSave") /\ Has(trace, "SectionLoad")

\* C4 (as stated): when a request misses with all four slots occupied, the
\* section evicted is the least recently accessed one, also when accesses
\* fall within the same clock reading.
C4_StrictLRU ==
    [][\A i \in Slots : Evicted(i) => (order # <<>> /\ Head(order) = i)]_vars

\* C4 (amended): the section evicted is the least recently used by the
\* recorded access times: no slot holds a smaller time than the victim's,
\* and among the slots with the victim's time the victim is the lowest.
C4_OldestStampFirstSlot ==
    [][\A i \in Slots : Evicted(i) =>
          \A j \in Slots :
              times[j] > times[i] \/ (times[j] = times[i] /\ j >= i)]_vars

\* An eviction has happened that spared slot 0, which holds the section
\* loaded first: it had been accessed at a later clock reading.
C4_EvictedLaterSlot ==
    /\ Has(trace, "SectionSave") /\ Has(trace, "SectionLoad")
    /\ cache[0].ptr /\ KeyOf(0) = SectionOrder[1]
    /\ \E i \in Slots : times[i] < times[0]

\* C5: from an empty store, touching 5 distinct sections leaves exactly 4
\* resident (as many as were loaded, up to 4); every eviction produces
\* exactly one SectionSave, for the evicted section's key, before the
\* SectionLoad of the section that replaces it; no SectionSave is issued
\* while an empty slot is available.
C5_CapacityAndNotifications ==
    [][/\ Cardinality(Resident') = Min(loads', CacheSlots)
       /\ \A i \in Slots : Evicted(i) =>
            /\ Count(trace', "SectionSave") = 1
            /\ \E m, n \in 1..Len(trace') :
                 /\ m < n
                 /\ trace'[m] = Event("SectionSave", cache[i].X, cache[i].Y)
                 /\ trace'[n] = Event("SectionLoad", cache'[i].X, cache'[i].Y)
       /\ Cardinality(Occupied) < CacheSlots => ~Has(trace', "SectionSave")]_vars

C5_FifthSectionLoaded ==
    /\ loads = 5
    /\ Cardinality(Resident) = 4
    /\ Count(trace, "SectionSave") = 1 /\ Count(trace, "SectionLoad") = 1

\* C6 (as stated): the SectionSave notification for a section is never
\* observed before that section's file has been written, and is not issued
\* if the write fails.
C6_PersistThenNotify ==
    \A n \in 1..Len(trace) :
        trace[n].ev = "SectionSave" =>
            \E m \in 1..(n - 1) : trace[m] = Event("write", trace[n].X, trace[n].Y)

\* C6 (amended): on eviction the observer is notified first and the evicted
\* section is persisted only then: every attempt to write an evicted
\* section's file comes right after the SectionSave notification for that
\* section, and the notification is issued whether or not the write succeeds.
C6_NotifyThenPersist ==
    /\ \A n \in 1..Len(trace) :
         trace[n].ev \in SaveEvents =>
            n > 1 /\ trace[n - 1] = Event("SectionSave", trace[n].X, trace[n].Y)
    /\ \A n \in 1..Len(trace) :
         trace[n].ev = "SectionSave" =>
            /\ n < Len(trace)
            /\ trace[n + 1].ev \in SaveEvents
            /\ <<trace[n + 1].X, trace[n + 1].Y>> = <<trace[n].X, trace[n].Y>>

C6_NotifiedThenWriteFailed ==
    /\ Len(trace) = 2
    /\ trace[1].ev = "SectionSave"
    /\ trace[2].ev = "createError"
    /\ status = "fatal"

\* No file of the section k is on disk, under either directory.
NoFileFor(fs, k) == \A d \in Dirs : ~fs[<<d, mapFileName(k[1], k[2])>>].exists

\* C7: requesting a section whose file does not exist yields a resident
\* section with every cell and every edge empty, returns no error, fires the
\* load notification and writes nothing to disk for it at load time.
C7_MissingFileEmptySection ==
    [][\A k \in SectionKeys :
          ( /\ call'.op = "GetShape"
            /\ <<call'.pos[1], call'.pos[2]>> = k
            /\ k \notin Resident
            /\ NoFileFor(files, k)
            /\ \A i \in Slots :
                 Evicted(i) => mapFileName(cache[i].X, cache[i].Y) # mapFileName(k[1], k[2]) )
          =>
          ( /\ status' # "fatal"
            /\ \E i \in Slots : cache'[i] = NewSection(k[1], k[2])
            /\ status' = "running" => (call'.val = 0 /\ ~call'.ok)
            /\ trace' # <<>> /\ trace'[Len(trace')] = Event("SectionLoad", k[1], k[2])
            /\ ~Has(trace', "read")
            /\ NoFileFor(files', k) )]_vars

\* A section without a file was requested while the store was full: another
\* section was written out, the requested one was installed empty and has
\* no file.
C7_LoadedWithoutFile ==
    /\ status = "running" /\ call.op = "GetShape" /\ ~call.ok
    /\ Len(trace) = 3 /\ trace[2].ev = "write"
    /\ trace[3] = Event("SectionLoad", call.pos[1], call.pos[2])
    /\ NoFileFor(files, <<call.pos[1], call.pos[2]>>)

\* C8: every failure of the file system or of decoding, other than "file
\* does not exist", that occurs while a section is loaded or saved is
\* reported as an error, fatal to the caller; it never leaves an empty
\* section installed in place of the stored data.
C8_FailuresAreFatal == Struck(trace) => status = "fatal"

\* C9: SaveAll persists every resident section and evicts none: when it
\* returns without error the slots, their sections and their times are
\* unchanged and each resident section's file holds its current contents.
C9_SaveAllPersistsAll ==
    [][(call'.op = "SaveAll" /\ call'.ok) =>
          /\ cache' = cache /\ times' = times
          /\ \A i \in Slots : cache'[i].ptr =>
               files'[savePath(cache'[i].X, cache'[i].Y)] = FileOf(cache'[i])]_vars

\* C10: for any world (x,y), negative coordinates included, the section
\* addressed is (floor(x/200), floor(y/200)) and the local cell is
\* (x mod 200, y mod 200), both in [0,200); GetSectionPos is the floor of the
\* focal point.
C10_FloorAddressing ==
    /\ call.op \in CellCalls \cup EdgeCalls =>
         /\ call.pos[1] = FloorDiv(call.args[1], SECTION_SIZE)
         /\ call.pos[2] = FloorDiv(call.args[2], SECTION_SIZE)
         /\ call.pos[3] = FloorMod(call.args[1], SECTION_SIZE)
         /\ call.pos[4] = FloorMod(call.args[2], SECTION_SIZE)
         /\ InRangeXY(call.pos[3]) /\ InRangeXY(call.pos[4])
    /\ call.op = "GetSectionPos" =>
         call.pos = <<FloorDiv(focus[1], SECTION_SIZE), FloorDiv(focus[2], SECTION_SIZE)>>

\* ------------------------------------------------------------------------
\* C11: at the Loader's current position, toViewPos reports a world coordinate
\* valid exactly when its window-relative X and Y lie in [0,96) and its Z in
\* [0,24); when it does, toWorldPos of the view coordinates is the world
\* coordinate again, and toViewPos(toWorldPos(v)) = v for every cell v of the
\* window that is asked about.
RelX(world) == world[1] - (focus[1] - 48)
RelY(world) == world[2] - (focus[2] - 48)
InWindow(world) ==
    /\ 0 <= RelX(world) /\ RelX(world) < 96
    /\ 0 <= RelY(world) /\ RelY(world) < 96
    /\ 0 <= world[3] /\ world[3] < 24
C11_WindowBounds ==
    [][query' # query /\ query'.op = "GetBlockPos" =>
        /\ query'.valid <=> InWindow(query'.args)
        /\ toViewPos(query'.args[1], query'.args[2], query'.args[3]).ok = query'.valid
        /\ query'.valid =>
            /\ toWorldPos(query'.result[1], query'.result[2], query'.result[3]) = query'.args
            /\ CellOf(toViewPos(query'.args[1], query'.args[2], query'.args[3]))
                = query'.result
        /\ \A v \in EdgeProbes :
            isValidViewPos(v[1], v[2], v[3]) =>
                toViewPos(At(v)[1], At(v)[2], At(v)[3])
                    = [x |-> v[1], y |-> v[2], z |-> v[3], ok |-> TRUE]]_vars

\* the far corner of the window is asked about while the Loader is at (0,0):
\* its world coordinates are (47,47,23), those of the near corner negative
C11_FarCornerValid ==
    /\ focus = <<0, 0>>
    /\ query.op = "GetBlockPos" /\ query.valid
    /\ query.args = <<47, 47, 23>> /\ query.result = <<95, 95, 23>>

\* C13 as claimed: MoveTo(x,y) changes the focal point if and only if (x,y)
\* differs from it, returns true exactly when it changed it, and leaves the
\* section cache and every cell of the window as they were.
MoveToStep == call' # call /\ call'.op = "MoveTo"
MoveToFrame ==
    /\ call'.ok <=> focus' # focus
    /\ focus' # focus => focus' = call'.args
    /\ cache' = cache /\ times' = times /\ files' = files
    /\ view' = view
C13_MovesIffDiffers ==
    [][MoveToStep => /\ focus' # focus <=> call'.args # focus
                     /\ MoveToFrame]_vars

\* C13 as the code has it: the focal point changes if and only if (x,y)
\* differs from it and neither x nor y is negative.
C13_MovesIffDiffersAndNonNegative ==
    [][MoveToStep => /\ focus' # focus <=>
                            /\ call'.args # focus
                            /\ call'.args[1] >= 0 /\ call'.args[2] >= 0
                     /\ MoveToFrame]_vars

\* the Loader was moved under a loaded window while a section was resident,
\* and the window still has the cells it was loaded with
C13_MovedUnderLoadedWindow ==
    /\ call.op = "MoveTo" /\ call.ok /\ focus = call.args
    /\ view.loaded /\ view.origin # focus /\ view.pos = Ledge
    /\ Occupied # {}

\* ------------------------------------------------------------------------
\* C12: a window-level query (GetShape, GetBlocker, IsEmpty, FindTop,
\* MoveShape, FindPath, GetBlockPos) given a coordinate outside the window
\* fails explicitly: it returns, it has read no cell of the window, and no
\* call of the same query with coordinates inside the window returns what it
\* returns outside.
OutsideWorld == At(<<-1, 0, 0>>)
OutsideAnswer(op, args) ==
    CASE op = "GetShape" -> getShape(OutsideWorld)
      [] op = "GetBlocker" -> getBlockerAnswer(OutsideWorld)
      [] op = "IsEmpty" -> isEmpty(OutsideWorld, args[4])
      [] op = "FindTop" -> findTop(OutsideWorld[1], OutsideWorld[2], args[3])
      [] op = "GetBlockPos" -> getBlockPos(OutsideWorld)
      [] op = "MoveShape" -> moveShape(OutsideWorld, args[4], args[5], args[6])
      [] op = "FindPath" -> findPathOutside
Returned(a) == <<a.nil, a.result>>
WindowQueries ==
    {"GetShape", "GetBlocker", "IsEmpty", "FindTop", "GetBlockPos", "MoveShape", "FindPath"}
C12_OutsideFailsExplicitly ==
    query.op \in WindowQueries /\ query.pc = "idle" =>
        /\ ~query.valid => ~query.panic /\ query.reads = {}
        /\ query.valid /\ ~query.panic =>
            Returned(query) # Returned(OutsideAnswer(query.op, query.args))

\* ------------------------------------------------------------------------
\* C14: when the start or the end lies outside the window, FindPath returns
\* nil without running a search, and the pathfinding scratch state of every
\* cell is what it was before the call.
FindPathCall == query.pc = "idle" /\ query' # query /\ query'.op = "FindPath"
C14_OutsideNoSearch ==
    [][FindPathCall /\ (~InWindow(query'.args[1]) \/ ~InWindow(query'.args[2])) =>
        /\ query'.pc = "idle" /\ query'.passes = 0 /\ query'.openList = <<>>
        /\ query'.nil /\ query'.result = <<>>
        /\ view'.pathNode = view.pathNode]_vars

\* FindPath was refused for its end while the cells still carry the scratch
\* state of an earlier search
C14_RefusedWithScratchLeft ==
    /\ query.op = "FindPath" /\ query.pc = "idle" /\ ~query.valid
    /\ InWindow(query.args[1]) /\ ~InWindow(query.args[2])
    /\ \E c \in DOMAIN view.pathNode : view.pathNode[c].closed

\* ------------------------------------------------------------------------
\* Vocabulary of the properties of the collision engine and the pathfinder.
\* The box a blocker query moves about is the box of the source cell.
MoverAt(c) == SetPos(boxOf(view, view.context.start), c[1], c[2], c[3])
Meets(bp, c) == intersect(boxOf(view, bp), MoverAt(c))
IsDoor(bp) == view.pos[bp] \in pathThroughShapes
StepCell(step) == CellOf(toViewPos(step[1], step[2], step[3]))
\* the returned path enters a door that is neither its start nor its destination
CrossesDoor ==
    \E k \in 1..Len(query.result) :
        \E bp \in DOMAIN view.pos \ {view.context.start, view.context.end} :
            IsDoor(bp) /\ Meets(bp, StepCell(query.result[k]))
\* the goal test of a cell
AtGoal(c) == intersect(SetPos(view.context.startBox, c[1], c[2], c[3]), view.context.endBox)
\* the cells one move away from c, by the vertical-resolution rule with the
\* doors open
Pathing == [view EXCEPT !.context.isPathing = TRUE, !.context.usePathThrough = TRUE]
Around(c) ==
    { d \in { <<c[1] - 1, c[2], c[3]>>, <<c[1] + 1, c[2], c[3]>>,
              <<c[1], c[2] - 1, c[3]>>, <<c[1], c[2] + 1, c[3]>> } :
        isValidViewPos(d[1], d[2], d[3]) }
MovesFrom(c) == { tryMove(Pathing, NoCells, d[1], d[2], d[3]).node : d \in Around(c) } \ {NoCell}
ClosedCells == { c \in DOMAIN view.pathNode : view.pathNode[c].closed }
\* no sequence of moves leads from the start to a cell that passes the goal
\* test: the closed cells hold the start, none passes the test, and no move
\* leaves them
NoPathLeft ==
    /\ view.context.start \in ClosedCells
    /\ \A c \in ClosedCells : ~AtGoal(c) /\ MovesFrom(c) \subseteq ClosedCells
FindPathReturns == query.pc = "search" /\ query'.pc = "idle" /\ ~query'.panic

\* C15: the search with the doors open is run only after the search with the
\* doors solid, over the same inputs, has returned no path; a returned path
\* enters a door only if that first search found none; and when FindPath
\* returns no path there is none even with the doors open.
C15_DoorsOnlyAfterSolid ==
    [][/\ query'.passes = 2 /\ query.passes # 2 =>
            /\ query.pc = "search" /\ query.passes = 1 /\ query.openList = <<>>
            /\ ~view.context.usePathThrough /\ query'.args = query.args
       /\ query'.pc = "search" /\ view'.context.usePathThrough => query'.passes = 2
       /\ FindPathReturns =>
            /\ CrossesDoor' => query'.passes = 2
            /\ query'.nil => NoPathLeft']_vars

\* the cell the search takes from the open list passes the goal test
GoalReached ==
    /\ query.openList # <<>>
    /\ AtGoal(query.openList[lowInd(view.pathNode, query.openList)])

\* C16: FindPath returns an empty or absent result exactly when no search
\* passed the goal test; a search that passes it, the start passing it
\* included, returns at least one step; and the second search starts exactly
\* when the first has found no path.
C16_EmptyIffNoPath ==
    [][/\ FindPathReturns =>
            /\ ~query'.nil <=> GoalReached
            /\ query'.result = <<>> <=> query'.nil
       /\ query.pc = "search" /\ query.passes = 1 /\ query.openList = <<>> =>
            query'.pc = "search" /\ query'.passes = 2
       /\ query'.passes = 2 /\ query.passes # 2 =>
            query.pc = "search" /\ query.passes = 1 /\ query.openList = <<>>]_vars

\* ------------------------------------------------------------------------
\* C17: on a window with no occupied cell, FindPath between two cells of the
\* window at z = 0 on the same row, with footprint radius 1 at both ends,
\* returns as many steps as the ends are apart in X, one for each X from the
\* start (excluded) to the end (included), in this order, on the row of the
\* start and at z = 0.
Sign(a) == IF a < 0 THEN -1 ELSE 1
C17_StraightOnEmptyWindow ==
    /\ query.op = "FindPath" /\ query.pc = "idle" /\ query.valid
    /\ view.pos = NoCells
    /\ query.args[1][2] = query.args[2][2]
    /\ query.args[1][3] = 0 /\ query.args[2][3] = 0
    /\ query.args[4] = 1 /\ query.args[5] = 1
    => /\ ~query.nil
       /\ Len(query.result) = AbsInt(query.args[2][1] - query.args[1][1])
       /\ \A k \in 1..Len(query.result) :
            query.result[k]
                = <<query.args[1][1] + k * Sign(query.args[2][1] - query.args[1][1]),
                    query.args[1][2], 0>>

\* the path from (10,10,0) to (20,10,0) of the window has been returned
C17_TenStepsEast ==
    /\ query.op = "FindPath" /\ query.pc = "idle" /\ view.pos = NoCells
    /\ query.args = <<At(<<10, 10, 0>>), At(<<20, 10, 0>>), FALSE, 1, 1>>
    /\ Len(query.result) = 10
    /\ query.result[1] = At(<<11, 10, 0>>) /\ query.result[10] = At(<<20, 10, 0>>)

\* ------------------------------------------------------------------------
\* C18: while a path is searched, an occupied cell whose box meets the box
\* of the query is passed over only if it is the querying cell, or the
\* destination cell, or a cell of a pass-through shape while those are in
\* use; when any other cell meets the query, the query reports a blocker,
\* and the blocker it reports is such a cell.
Solid(c) ==
    { bp \in DOMAIN view.pos \ {view.context.start, view.context.end} :
        /\ Meets(bp, c)
        /\ ~(view.context.usePathThrough /\ IsDoor(bp)) }
C18_OnlyExemptCellsPassed ==
    query.pc = "search" /\ blockOf(view, view.context.start) > 0 =>
        \A c \in DOMAIN view.pathNode :
            view.pathNode[c].fitCalled =>
                /\ Solid(c) # {} => view.pathNode[c].blocker \in Solid(c)
                /\ view.pathNode[c].blocker # NoCell => view.pathNode[c].blocker \in Solid(c)

\* ------------------------------------------------------------------------
\* C19: a blocker query never answers with the cell that asks: what
\* GetBlocker returns, and what the search has memoized for a cell, is nil or
\* a cell other than the source cell.
C19_NeverTheSource ==
    /\ query.op = "GetBlocker" /\ ~query.panic => query.result # view.context.start
    /\ \A c \in DOMAIN view.pathNode :
          view.pathNode[c].blocker = NoCell \/ view.pathNode[c].blocker # view.context.start

\* GetBlocker was asked about the place where the source cell's shape stands,
\* and answered that nothing blocks it
C19_AskedAtTheSource ==
    /\ query.op = "GetBlocker" /\ query.valid /\ query.nil /\ ~query.panic
    /\ blockOf(view, view.context.start) > 0
    /\ query.args = At(view.context.start)

\* ------------------------------------------------------------------------
\* C20: when MoveShape has moved a shape that does not fly, no cell the shape
\* now rests on (a cell whose box meets the shape's box one level down) has
\* a shape marked NoSupport.
Landed == <<query.args[4] - (focus[1] - 48), query.args[5] - (focus[2] - 48), query.result[1]>>
RestsOn ==
    { bp \in DOMAIN view.pos \ {Landed} :
        intersect(boxOf(view, bp),
                  SetPos(boxOf(view, Landed), Landed[1], Landed[2], Landed[3] - 1)) }
C20_NeverRestsOnNoSupport ==
    /\ query.op = "MoveShape" /\ query.valid /\ ~query.panic
    /\ query.result[1] >= 0 /\ ~query.args[6]
    /\ blockOf(view, Landed) > 0
    => \A bp \in RestsOn : ~Shapes[view.pos[bp]].NoSupport

\* ------------------------------------------------------------------------
\* A step in which MoveShape returns for coordinates inside the window, and
\* what its mover finds before it moves: Free(z) says that nothing blocks the
\* mover's box at level z of the target column, Lowest is the level the
\* mover reaches by dropping from its own level while the level below is free.
MoveShapeStep == query' # query /\ query'.op = "MoveShape" /\ query'.valid /\ ~query'.panic
MoverFrom == CellOf(toViewPos(query'.args[1], query'.args[2], query'.args[3]))
MoverTo == toViewPos(query'.args[4], query'.args[5], 0)
Mover ==
    [view EXCEPT !.context.isPathing = FALSE, !.context.isFlying = query'.args[6],
                 !.context.start = MoverFrom]
Under(z) == getBlocker(Mover, At(<<MoverTo.x, MoverTo.y, z>>))
Free(z) == Under(z) = NoCell
Top(S) == CHOOSE k \in S : \A j \in S : j <= k
Lowest == Top({0} \cup { k + 1 : k \in { j \in 0..(MoverFrom[3] - 1) : ~Free(j) } })
NoSupportBelow(low) ==
    /\ ~query'.args[6] /\ low > 0
    /\ Shapes[view.pos[Under(low - 1)]].NoSupport

\* C21: MoveShape places the mover at the lowest level it reaches by dropping
\* from its own level through free levels; when it cannot drop it stays on
\* its level if that is free, else goes exactly one level up if that is
\* free, else the move is rejected; a move is rejected only so, or because a
\* mover that does not fly would land on a shape that gives no support.
C21_DropThenSameThenOneUp ==
    [][MoveShapeStep =>
        \E low \in {Lowest} :
            /\ query'.result[1] >= 0 =>
                /\ low < MoverFrom[3] => query'.result[1] = low
                /\ low = MoverFrom[3] /\ Free(low) => query'.result[1] = low
                /\ low = MoverFrom[3] /\ ~Free(low) =>
                        query'.result[1] = low + 1 /\ Free(low + 1)
            /\ query'.result[1] < 0 =>
                \/ NoSupportBelow(low)
                \/ low = MoverFrom[3] /\ ~Free(low) /\ ~Free(low + 1)
            /\ low = MoverFrom[3] /\ ~Free(low) /\ ~Free(low + 1) =>
                query'.result[1] < 0]_vars

\* the creature in the air has been dropped onto the crate two levels below
C21_DroppedOntoCrate ==
    /\ query.op = "MoveShape" /\ ~query.panic
    /\ query.args = At(<<10, 10, 2>>) \o <<At(<<10, 11, 0>>)[1], At(<<10, 11, 0>>)[2], FALSE>>
    /\ query.result = <<1>>
    /\ blockOf(view, <<10, 11, 1>>) = 1 /\ blockOf(view, <<10, 11, 0>>) = 5
    /\ blockOf(view, <<10, 10, 2>>) = 0

\* ------------------------------------------------------------------------
\* C30: the vertical-resolution rule indexes the window only at levels 0 to
\* 23: no MoveShape between coordinates of the window, from any level of the
\* window, reads blockPos outside its bounds.
C30_ProbesStayInside ==
    query.op = "MoveShape" /\ query.valid => ~query.panic

\* ------------------------------------------------------------------------
\* C25: a Loader.EraseShape that follows a SetShape on the same cell returns
\* true, one that follows an EraseShape on the same cell returns false, and a
\* GetShape that follows an EraseShape on the same cell reports not-found;
\* an EraseShape that returns false leaves every cell of every section that
\* stays resident as it was.
SameCell == call'.args[1] = call.args[1] /\ call'.args[2] = call.args[2]
                /\ call'.args[3] = call.args[3]
Returns == status = "running" /\ status' = "running"
C25_EraseOnceThenNothing ==
    [][/\ Returns /\ call.op = "SetShape" /\ call'.op = "EraseShape" /\ SameCell
            => call'.ok
       /\ Returns /\ call.op = "EraseShape" /\ call'.op = "EraseShape" /\ SameCell
            => ~call'.ok
       /\ Returns /\ call.op = "EraseShape" /\ call'.op = "GetShape" /\ SameCell
            => ~call'.ok
       /\ Returns /\ call'.op = "EraseShape" /\ ~call'.ok
            => \A i \in Slots, j \in Slots :
                    cache[i].ptr /\ cache'[j].ptr /\ KeyOf(i) = <<cache'[j].X, cache'[j].Y>>
                    => cache'[j].position = cache[i].position]_vars

\* an EraseShape has returned true for a cell that now holds nothing
C25_ErasedWhatWasSet ==
    /\ status = "running" /\ call.op = "EraseShape" /\ call.ok
    /\ \E i \in Occupied :
         /\ KeyOf(i) = <<call.pos[1], call.pos[2]>>
         /\ cache[i].position[<<call.pos[3], call.pos[4], call.pos[5]>>] = 0

\* ------------------------------------------------------------------------
\* Vocabulary of the search: a step of one pass, the cell it takes from the
\* open list, the cells of a sequence.
SamePass ==
    /\ query.pc = "search" /\ query'.pc = "search"
    /\ query'.passes = query.passes /\ query'.args = query.args
PassStarts == query'.pc = "search" /\ (query.pc = "idle" \/ query'.passes # query.passes)
Current == query.openList[lowInd(view.pathNode, query.openList)]
Range(seq) == { seq[k] : k \in 1..Len(seq) }
Visited(v) == { c \in DOMAIN v.pathNode : v.pathNode[c].visited }

\* C22: the h stored for a visited cell is the Manhattan distance between
\* the cell and the goal, each moved by half the width of its own box (the
\* cell by startBox.W/2, the goal by endBox.W/2), and once stored it does not
\* change during the search.
CentreDistance(v, c) ==
      AbsInt((v.context.end[1] + v.context.endBox.W \div 2)
                - (c[1] + v.context.startBox.W \div 2))
    + AbsInt((v.context.end[2] + v.context.endBox.W \div 2)
                - (c[2] + v.context.startBox.W \div 2))
    + AbsInt((v.context.end[3] + v.context.endBox.W \div 2)
                - (c[3] + v.context.startBox.W \div 2))
C22_HeuristicOfCentres ==
    [][/\ query'.pc = "search" =>
            \A c \in Visited(view') : view'.pathNode[c].h = CentreDistance(view', c)
       /\ SamePass =>
            \A c \in Visited(view) : view'.pathNode[c].h = view.pathNode[c].h]_vars

Accepted(v) == { c \in DOMAIN v.pathNode : v.pathNode[c].parent # NoCell }
C27_ScoresAndParents ==
    [][/\ query'.pc = "search" =>
            /\ \A c \in Accepted(view') :
                    /\ view'.pathNode[c].f = view'.pathNode[c].g + view'.pathNode[c].h
                    /\ view'.pathNode[c].g
                            = nodeOf(view'.pathNode, view'.pathNode[c].parent).g + 1
                    /\ nodeOf(view'.pathNode, view'.pathNode[c].parent).closed
            /\ Visited(view') = Accepted(view')
            /\ nodeOf(view'.pathNode, view'.context.start).parent = NoCell
            /\ nodeOf(view'.pathNode, view'.context.start).g = 0
       /\ SamePass =>
            /\ \A c \in ClosedCells :
                    /\ view'.pathNode[c].parent = view.pathNode[c].parent
                    /\ view'.pathNode[c].g = view.pathNode[c].g
                    /\ view'.pathNode[c].f = view.pathNode[c].f
            /\ \A c \in Visited(view) :
                    view'.pathNode[c].g # view.pathNode[c].g
                        => view'.pathNode[c].g < view.pathNode[c].g
       /\ FindPathReturns /\ ~query'.nil =>
            Len(query'.result) = nodeOf(view.pathNode, Current).g]_vars

\* a cell first reached in 7 moves, from its closed neighbor 6 moves out,
\* has been reached again in 5 and is then closed with that g
C27_ShorterWayFound ==
    /\ query.pc = "search" /\ view.pos = NoCells
    /\ view.context.start = <<48, 52, 0>>
    /\ {<<52, 50, 0>>, <<52, 51, 0>>} \subseteq ClosedCells
    /\ view.pathNode[<<52, 50, 0>>].g = 6
    /\ view.pathNode[<<52, 51, 0>>].g = 5
    /\ view.pathNode[<<52, 51, 0>>].parent = <<52, 52, 0>>

\* ------------------------------------------------------------------------
\* C28: a path FindPath returns with at least one step leads from the start
\* to the goal: it does not hold the start cell, every step is a coordinate
\* of the window, the first step is one cell away from the start in X or in
\* Y (and not both), so is every step from the step before it, and at the
\* last step the mover's box meets the destination's box.
Beside(a, b) == AbsInt(a[1] - b[1]) + AbsInt(a[2] - b[2]) = 1
C28_PathLeadsToGoal ==
    query.op = "FindPath" /\ query.pc = "idle" /\ query.valid /\ query.result # <<>> =>
        /\ \A k \in 1..Len(query.result) :
                /\ toViewPos(query.result[k][1], query.result[k][2], query.result[k][3]).ok
                /\ StepCell(query.result[k]) # view.context.start
                /\ Beside(StepCell(query.result[k]),
                          IF k = 1 THEN view.context.start
                          ELSE StepCell(query.result[k - 1]))
        /\ AtGoal(StepCell(query.result[Len(query.result)]))

\* the path out of the room through its door has been returned
C28_OutThroughTheDoor ==
    /\ query.op = "FindPath" /\ query.pc = "idle" /\ view.pos = Room(3)
    /\ query.args[1] = At(<<1, 1, 0>>) /\ query.args[2] = At(<<5, 1, 0>>)
    /\ Len(query.result) = 4 /\ query.result[2] = At(<<3, 1, 0>>)

\* ------------------------------------------------------------------------
\* C29: each search, the second search of a FindPath included, starts with
\* the scratch state of every cell zeroed, and during a search the blocker
\* memoized for a cell is the one an uncached query for the cell returns.
C29_ScratchPerSearch ==
    [][/\ PassStarts => view'.pathNode = NoCells
       /\ query'.pc = "search" =>
            \A c \in DOMAIN view'.pathNode :
                view'.pathNode[c].fitCalled =>
                    view'.pathNode[c].blocker = getBlocker(view', worldOf(view', c))]_vars

\* in the second search the door of the room, memoized as a blocker in the
\* first, is memoized as no blocker
C29_DoorOpenInSecondSearch ==
    /\ query.pc = "search" /\ query.passes = 2 /\ view.pos = Room(3)
    /\ <<3, 1, 0>> \in DOMAIN view.pathNode
    /\ view.pathNode[<<3, 1, 0>>].fitCalled /\ view.pathNode[<<3, 1, 0>>].blocker = NoCell

\* ------------------------------------------------------------------------
\* C26: once View.Load has completed, every section under the window is in
\* the Loader's cache, and it is the Section the window's cells were linked
\* to: each cell's position is a position of a Section the Loader uses. This
\* stays so, whatever is read, set or erased outside the window, until the
\* next Load.
WindowSections(v) == { sectionOf(v, <<x, y, 0>>) : x \in {0, SIZE - 1}, y \in {0, SIZE - 1} }
C26_WindowStaysResident ==
    (view.loaded /\ status = "running") =>
        /\ WindowSections(view) \subseteq KeysIn(cache)
        /\ WindowSections(view) \subseteq view.linked
        /\ \A c \in LinkCells \cup DOMAIN view.pos : Fresh(view, c)

\* C24: a SetShape in the window leaves the cell with the box of the shape
\* placed, anchored at the cell, and a collision query made next reports the
\* cell as the blocker; after EraseShapeExact or EraseShape has erased a cell
\* of the window, no collision query reports that cell as a blocker.
Probe == ShapeBox(<<0, 0, 0>>, Crate)
Blocker(v, c) == getBlockerAt(v, c[1], c[2], c[3], Probe, NoCell)
C24_SetAndEraseSeenAtOnce ==
    [][(status' = "running" /\ query' # query /\ query'.valid /\ ~query'.nil) =>
         /\ query'.op = "SetShape" =>
               /\ boxOf(view', query'.result) = ShapeBox(query'.result, query'.args[4] + 1)
               /\ Blocker(view', query'.result) = query'.result
         /\ query'.op \in {"EraseShapeExact", "EraseShape"} =>
               Blocker(view', query'.result[1]) \notin query'.reads]_vars

\* ------------------------------------------------------------------------
\* C32: the file name is an injective function of the section coordinates:
\* two different sections the Loader holds never have the same file name, so
\* that saving one of them cannot overwrite the file of the other.
C32_FileNameInjective ==
    \A k1, k2 \in Resident :
        k1 # k2 => mapFileName(k1[1], k1[2]) # mapFileName(k2[1], k2[2])

\* C33: a request for a section that is in the cache changes nothing but the
\* time of the slot that holds it: nothing is loaded or saved, the observer
\* is told nothing, every slot keeps its section and every other slot its
\* time.
Asks(i) == cache[i].ptr /\ Len(call'.pos) >= 2 /\ KeyOf(i) = <<call'.pos[1], call'.pos[2]>>
C33_HitOnlyStampsSlot ==
    [][\A i \in Slots : Asks(i) =>
          /\ trace' = <<>> /\ files' = files /\ loads' = loads
          /\ cache' = cache
          /\ times'[i] >= times[i]
          /\ \A j \in Slots \ {i} : times'[j] = times[j]]_vars

\* The section loaded first has just been asked for again, at a later clock
\* reading than its load and the load of the second section.
C33_FirstSectionStampedAgain ==
    /\ status = "running" /\ call.op \in CellCalls \cup EdgeCalls /\ trace = <<>>
    /\ Occupied = {0, 1}
    /\ KeyOf(0) = <<call.pos[1], call.pos[2]>>
    /\ times[1] < times[0]

\* ------------------------------------------------------------------------
\* C31 (as stated): MoveShape returns -1 and changes no cell when an end is
\* outside the window or the shape does not fit; when it returns z >= 0 the
\* shape that was in the source cell is in the cell (newX, newY, z), the
\* source cell is empty and as many cells are occupied as before. The shape
\* that was in the source cell is spoken of: the source cell holds one
\* (GetBlocker warns of an empty source and lets it pass).
MoveShapeReturns == query' # query /\ query'.op = "MoveShape" /\ ~query'.panic
MovedTo == <<MoverTo.x, MoverTo.y, query'.result[1]>>
SameCells == view'.pos = view.pos /\ view'.box = view.box
SameCount == Cardinality(DOMAIN view'.pos) = Cardinality(DOMAIN view.pos)
BoxQueries == {"GetBlocker", "IsEmpty", "MoveShape", "FindPath"}
IsEmptyBox == ShapeBox(<<0, 0, 0>>, query'.args[4])
IsEmptyAt == toViewPos(query'.args[1], query'.args[2], query'.args[3])
C34_BoxBackInPlace ==
    [][(query' # query /\ query'.op \in BoxQueries /\ ~query'.panic) =>
         /\ view'.context.start # NoCell =>
               boxOf(view', view'.context.start) = boxOf(view, view'.context.start)
         /\ (query'.op = "IsEmpty" /\ query'.valid) =>
               getBlockerAtBox(IsEmptyAt.x, IsEmptyAt.y, IsEmptyAt.z, IsEmptyBox) = IsEmptyBox]_vars

\* GetBlocker has found a blocker for an occupied source cell, at another
\* cell than the source, and the source cell has the box of its shape.
C34_BlockerFoundBoxAtSource ==
    /\ query.op = "GetBlocker" /\ query.valid /\ ~query.nil /\ ~query.panic
    /\ blockOf(view, view.context.start) > 0
    /\ CellOf(toViewPos(query.args[1], query.args[2], query.args[3])) # view.context.start
    /\ boxOf(view, view.context.start)
            = ShapeBox(view.context.start, view.pos[view.context.start])

\* ------------------------------------------------------------------------
\* C35: for a column of the window FindTop returns a level z with
\* 0 <= z < 24 at which the footprint meets no occupied cell that lies below
\* maxZ, and 0 when the footprint meets nothing at any level of the column.
FindTopReturns == query' # query /\ query'.op = "FindTop" /\ query'.valid
TopAt == toViewPos(query'.args[1], query'.args[2], 0)
MeetsAt(z) ==
    { bp \in DOMAIN view'.pos :
        /\ bp[3] < view'.maxZ
        /\ intersect(boxOf(view', bp),
                     SetPos(ShapeBox(<<0, 0, 0>>, query'.args[3]), TopAt.x, TopAt.y, z)) }
C35_TopIsUsable ==
    [][FindTopReturns =>
         /\ query'.result[1] >= 0 /\ query'.result[1] < SECTION_Z_SIZE
         /\ MeetsAt(query'.result[1]) = {}
         /\ (\A z \in 0..(SECTION_Z_SIZE - 1) : MeetsAt(z) = {}) => query'.result[1] = 0]_vars

\* ------------------------------------------------------------------------
\* C36: the pass-through shapes are passed only while FindPath runs: once it
\* has returned, with a path, without one, or at once for an end outside the
\* window, isPathing is off, and every IsEmpty and MoveShape made then takes
\* a door for solid: IsEmpty is false where the footprint meets a door, and
\* MoveShape moves no shape to a level at which its box meets a door.
DoorsAt(v, box, src) ==
    { bp \in DOMAIN v.pos \ {src} :
        v.pos[bp] \in pathThroughShapes /\ intersect(boxOf(v, bp), box) }
C36_DoorsSolidAfterFindPath ==
    /\ [](query.pc = "idle" /\ ~query.panic /\ status = "running" => ~view.context.isPathing)
    /\ [][/\ (query' # query /\ query'.op = "IsEmpty" /\ query'.valid
                /\ DoorsAt(view, SetPos(IsEmptyBox, IsEmptyAt.x, IsEmptyAt.y, IsEmptyAt.z),
                            NoCell) # {})
              => query'.result = <<FALSE>>
          /\ (MoveShapeStep /\ query'.result[1] >= 0 /\ blockOf(view, MoverFrom) > 0)
              => DoorsAt(view, SetPos(boxOf(view, MoverFrom), MovedTo[1], MovedTo[2],
                                      MovedTo[3]), MoverFrom) = {}]_vars

\* FindPath has led the creature through the gate with the doors open, and
\* IsEmpty, asked about the gate afterwards, has answered that it is not.
C36_GateSolidAgain ==
    /\ query.op = "IsEmpty" /\ query.valid /\ query.result = <<FALSE>>
    /\ query.args = At(<<3, 1, 0>>) \o <<1>>
    /\ blockOf(view, <<3, 1, 0>>) \in pathThroughShapes
    /\ view.context.usePathThrough /\ view.context.end = <<5, 1, 0>>
    /\ ~view.context.isPathing

============================================================================
